---- MODULE Spec2Model ----
(***************************************************************************)
(* A model of the sentimeter news crawler: the per-domain rate limiter and *)
(* the retrying fetcher (lib/crawler/fetcher.ts), the content deduplicator *)
(* (lib/crawler/deduplicator.ts) and the crawl orchestrator                *)
(* (lib/crawler/orchestrator.ts).                                          *)
(*                                                                         *)
(* The module holds several specifications over one set of variables; a    *)
(* specification leaves the variables of the components it does not drive  *)
(* at their initial values.                                                *)
(***************************************************************************)
EXTENDS Integers, Sequences, FiniteSets, TLC

(***************************************************************************)
(* Bounds of the model.                                                    *)
(***************************************************************************)
\* Largest delayMs a caller passes to waitForDomain, in clock ticks.
MaxDelay == 2
\* Ticks the clock may advance past its first reading.
MaxElapse == 4

\* Largest retries option a caller passes to fetchWithRetry.
MaxRetries == 2
\* Largest retryDelayMs option a caller passes to fetchWithRetry.
MaxRetryDelay == 2

\* Longest title and longest body handed to generateContentHash, in characters.
MaxTitleLen == 2
MaxBodyLen == 3
\* Length of the body sample that is hashed: the code's 500 characters, scaled
\* down so that bodies longer than the sample occur.
SampleLen == 2

\* Configured portals, and the most links a listing page yields.
NumPortals == 2
MaxLinks == 2
\* Most anchors the link selector matches in a listing page.
MaxAnchors == 3

\* Selectors in a portal's titleSelector list.
NumTitleSelectors == 3

\* Configured portals when the batches of crawlAllPortals are observed (more
\* than one batch holds), and the most links a listing page yields when the
\* cap on the articles of a portal is observed (more than the cap).
NumBatchedPortals == 4
CapLinks == 17

\* Calls of crawlAllPortals in one behaviour.
MaxRuns == 2
\* Paragraphs of one content container, and content containers of one page.
MaxParagraphs == 2
MaxContainers == 2
\* Query parameters of one URL, and slashes at the end of its path.
MaxParams == 2
MaxSlashes == 2

\* Date.now() at the first call: epoch milliseconds, far above any delay.
T0 == MaxDelay + 1
MaxTime == T0 + MaxElapse

Domains == {"d1", "d2"}
Delays == 0..MaxDelay
Callers == {1, 2}

VARIABLES
  \* ---- clock and rate limiter (fetcher.ts, RateLimiter)
  now,              \* Date.now()
  delayOf,          \* per domain: the delayMs its callers pass (config.delayMs)
  lastRequestTime,  \* RateLimiter.lastRequestTime: Map<domain, number>
  wpc,              \* per caller: "idle" | "sleep" (suspended in await sleep)
  wDomain,          \* per caller: the domain argument of the call in progress
  wStart,           \* per caller: the clock when the call started
  wWake,            \* per caller: the clock at which its sleep timer is due
  lastCall,         \* per domain: the latest completed call (start, dispatch)
  \* ---- one call of fetchWithRetry (fetcher.ts)
  fpc,              \* "idle" | "request" | "body" | "backoff" | "returned" | "thrown"
  fRetries,         \* opts.retries (Undefined when the caller passes undefined)
  fRetryDelayMs,    \* opts.retryDelayMs (Undefined likewise)
  attempt,          \* the loop variable
  lastError,        \* the local lastError
  curStatus,        \* response.status of the attempt in progress, once received
  fResult,          \* the attempt whose body the call returned (0: none)
  thrown,           \* the error the call threw
  outcomes,         \* what the network did to each finished attempt, in order
  sleeps,           \* the argument of each backoff sleep, in order
  \* ---- one pair of inputs of generateContentHash (deduplicator.ts)
  title,            \* the title argument
  body,             \* the content argument (Null or a string)
  fp0,              \* the hash of the inputs as first given
  edited,           \* the kinds of edit applied to the inputs since
  otherTitle,       \* the title of a second document that is hashed
  otherBody,        \* the content of the second document
  \* ---- one listing page handed to parseArticleLinks (parser.ts)
  baseHost,         \* the hostname of config.baseUrl
  anchors,          \* the href of each element articleLinkSelector matches, in
                    \*   document order
  links,            \* the value parseArticleLinks returns for the page
  \* ---- one document page handed to parseArticle (parser.ts)
  selTexts,         \* per selector of config.titleSelector, in order: the text
                    \*   of the first element it matches once the
                    \*   removeSelectors are stripped ("" when it matches none)
  ppc,              \* "idle" | "parsed"
  parsedTitle,      \* the title of the RawArticle parseArticle returned; Null
                    \*   when it returned null
  \* ---- crawlAllPortals and crawlPortal (orchestrator.ts), the store, the remote
  portalConfigs,    \* PORTAL_CONFIGS: the configured portals, in order
  run,              \* calls of crawlAllPortals started so far
  opc,              \* crawlAllPortals: "idle" | "batch" | "sleep" | "done";
                    \*   "raised" when its promise rejected
  batchNo,          \* the batch being crawled
  oSleepStart,      \* the clock when crawlAllPortals last called sleep
  results,          \* the local results: CrawlResult[]
  summary,          \* the CrawlSummary returned by the latest call
  cpc,              \* per portal, crawlPortal: "idle" | "listing" | "article" |
                    \*   "returned"; in "listing" and "article" it is suspended
                    \*   in waitForDomain and then fetchWithRetry, for the
                    \*   listing page and for urlsToProcess[idx]; "rejected"
                    \*   when an error left crawlPortal uncaught
  urlsToProcess,    \* per portal: the local urlsToProcess
  idx,              \* per portal: the position of the for loop in urlsToProcess
  articlesFound,    \* per portal: the local articlesFound
  articlesCrawled,  \* per portal: the local articlesCrawled
  newArticles,      \* per portal: the local newArticles
  errors,           \* per portal: the local errors
  returned,         \* per portal: the CrawlResult its crawlPortal resolved with
  tries,            \* per portal: the attempt the fetchWithRetry in progress
                    \*   is at (its loop variable)
  httpAttempts,     \* per portal: the HTTP attempts its crawlPortal has made
  requests,         \* per portal: the document URLs its crawlPortal has
                    \*   fetched, in order
  store,            \* the news_articles table: the records inserted
  listingOf,        \* per portal: what a request of its listing page yields
  docOf,            \* per URL: what a request of it yields
  \* ---- one call of crawlPortal with its clock (orchestrator.ts, fetcher.ts)
  spc,              \* "idle" | "next" (about to call waitForDomain) | "wait"
                    \*   (asleep in waitForDomain) | "request" (an attempt of
                    \*   fetchWithRetry is in flight) | "backoff" | "done"
  sLink,            \* the link being handled: 0 for the listing page, i for
                    \*   urlsToProcess[i]
  sLinks,           \* the length of urlsToProcess
  sAttempt,         \* the loop variable of the fetchWithRetry in progress
  sSleepStart,      \* the clock when the sleep in progress was called
  sSleepMs,         \* its argument
  sInFlight,        \* the links with a request on the network
  sHandled,         \* the links whose loop iteration ended, in order, each
                    \*   with how it ended
  sLast,            \* the clock of the latest request dispatched (Undefined
                    \*   before the first)
  sRun,             \* the calls of crawlPortal for the portal so far
  \* ---- one document page handed to extractContent (parser.ts)
  containers,       \* per selector of config.contentSelector that matches, in
                    \*   order: the text of each <p> inside its first element,
                    \*   in document order
  kpc,              \* "idle" | "parsed"
  parsedContent,    \* the value extractContent returned
  \* ---- one URL handed to normalizeUrl (deduplicator.ts)
  uFirst,           \* the URL as first given
  uUrl,             \* the URL after the edits made to it since
  \* ---- one invocation of generateContent (llm-client.ts)
  gpc,              \* where the invocation is
  gAttempt,         \* the loop variable attempt
  gLastError,       \* the local lastError
  gThrown,          \* the value the last failed model call threw, if any
  gCaughtAt,        \* the time it was caught
  gCalls,           \* the model calls made so far
  gNow,             \* the clock, in ms
  gResult           \* the value returned

limVars == <<now, delayOf, lastRequestTime, wpc, wDomain, wStart, wWake, lastCall>>

fetchVars == <<fpc, fRetries, fRetryDelayMs, attempt, lastError, curStatus,
               fResult, thrown, outcomes, sleeps>>

textVars == <<title, body, fp0, edited, otherTitle, otherBody>>

crawlVars == <<portalConfigs, run, opc, batchNo, oSleepStart, results, summary, cpc,
               tries, httpAttempts,
               urlsToProcess, idx, articlesFound, articlesCrawled, newArticles,
               errors, returned, requests, store, listingOf, docOf>>

linkVars == <<baseHost, anchors, links>>

titleVars == <<selTexts, ppc, parsedTitle>>

sourceVars == <<spc, sLink, sLinks, sAttempt, sSleepStart, sSleepMs, sInFlight,
                sHandled, sLast, sRun>>

contentVars == <<containers, kpc, parsedContent>>

urlVars == <<uFirst, uUrl>>

llmVars == <<gpc, gAttempt, gLastError, gThrown, gCaughtAt, gCalls, gNow, gResult>>

vars == <<limVars, fetchVars, textVars, linkVars, titleVars, crawlVars,
          sourceVars, contentVars, urlVars, llmVars>>

\* what the actions of one component leave alone
notLimVars == <<fetchVars, textVars, linkVars, crawlVars, titleVars,
   sourceVars, contentVars, urlVars, llmVars>>
notFetchVars == <<limVars, textVars, linkVars, crawlVars, titleVars,
   sourceVars, contentVars, urlVars, llmVars>>
notTextVars == <<limVars, fetchVars, linkVars, crawlVars, titleVars,
   sourceVars, contentVars, urlVars, llmVars>>
notLinkVars == <<limVars, fetchVars, textVars, crawlVars, titleVars,
   sourceVars, contentVars, urlVars, llmVars>>
notTitleVars == <<limVars, fetchVars, textVars, linkVars, crawlVars,
   sourceVars, contentVars, urlVars, llmVars>>
notCrawlVars == <<limVars, fetchVars, textVars, linkVars, titleVars,
   sourceVars, contentVars, urlVars, llmVars>>
notCrawlNorClock == <<delayOf, lastRequestTime, wpc, wDomain, wStart, wWake,
                      lastCall, fetchVars, textVars, linkVars, titleVars,
                      sourceVars, contentVars, urlVars, llmVars>>
notSourceVars == <<delayOf, wpc, wDomain, wStart, wWake, lastCall, fetchVars,
                   textVars, linkVars, titleVars, crawlVars, contentVars,
                   urlVars, llmVars>>
notContentVars == <<limVars, fetchVars, textVars, linkVars, titleVars, crawlVars,
                    sourceVars, urlVars, llmVars>>
notUrlVars == <<limVars, fetchVars, textVars, linkVars, titleVars, crawlVars,
                sourceVars, contentVars, llmVars>>
notLlmVars == <<limVars, fetchVars, textVars, linkVars, titleVars, crawlVars,
                sourceVars, contentVars, urlVars>>

(***************************************************************************)
(* RateLimiter                                                             *)
(***************************************************************************)
\* Map.get(domain) ?? 0
LastTimeGlobal_m(m, d) ==
  IF DOMAIN m = {} THEN 0
  ELSE CHOOSE t \in {m[x] : x \in DOMAIN m} : \A x \in DOMAIN m : m[x] <= t
LastTimeForgotten_m(m, d) == 0
LastTime(m, d) == IF d \in DOMAIN m THEN m[d] ELSE 0

\* Map.set(domain, t)
MapSet(m, d, t) == [x \in (DOMAIN m) \cup {d} |-> IF x = d THEN t ELSE m[x]]

\* the argument of sleep() in waitForDomain: delay - elapsed
SleepMsHalf_m(delay, elapsed) == (delay - elapsed) \div 2
SleepMs(delay, elapsed) == delay - elapsed

NoCall == [start |-> 0, dispatch |-> 0]
CallRecord(start, t) == [start |-> start, dispatch |-> t]

LimInit ==
  /\ now = T0
  /\ delayOf \in [Domains -> Delays]
  /\ lastRequestTime = << >>
  /\ wpc = [p \in Callers |-> "idle"]
  /\ wDomain = [p \in Callers |-> "d1"]
  /\ wStart = [p \in Callers |-> 0]
  /\ wWake = [p \in Callers |-> 0]
  /\ lastCall = [d \in Domains |-> NoCall]

\* The clock advances.
Tick ==
  /\ now < MaxTime
  /\ now' = now + 1
  /\ UNCHANGED <<delayOf, lastRequestTime, wpc, wDomain, wStart, wWake, lastCall>>
  /\ UNCHANGED notLimVars

\* waitForDomain(d, delayOf[d]) up to its first suspension: it reads the map and the
\* clock, and either suspends in sleep(delay - elapsed) or records the clock.
WaitStart(p, d) ==
  /\ wpc[p] = "idle"
  /\ LET delay == delayOf[d]
         lastTime == LastTime(lastRequestTime, d)
         elapsed == now - lastTime
     IN IF elapsed < delay
        THEN /\ wpc' = [wpc EXCEPT ![p] = "sleep"]
             /\ wDomain' = [wDomain EXCEPT ![p] = d]
             /\ wStart' = [wStart EXCEPT ![p] = now]
             /\ wWake' = [wWake EXCEPT ![p] = now + SleepMs(delay, elapsed)]
             /\ UNCHANGED <<lastRequestTime, lastCall>>
        ELSE /\ lastRequestTime' = MapSet(lastRequestTime, d, now)
             /\ lastCall' = [lastCall EXCEPT ![d] = CallRecord(now, now)]
             /\ UNCHANGED <<wpc, wDomain, wStart, wWake>>
  /\ UNCHANGED <<now, delayOf>>
  /\ UNCHANGED notLimVars

\* The sleep timer has fired (no earlier than it is due, possibly later): the
\* call resumes and records the clock.
WaitWake(p) ==
  /\ wpc[p] = "sleep"
  /\ now >= wWake[p]
  /\ lastRequestTime' = MapSet(lastRequestTime, wDomain[p], now)
  /\ lastCall' = [lastCall EXCEPT ![wDomain[p]] = CallRecord(wStart[p], now)]
  /\ wpc' = [wpc EXCEPT ![p] = "idle"]
  \* the call's locals go out of scope
  /\ wDomain' = [wDomain EXCEPT ![p] = "d1"]
  /\ wStart' = [wStart EXCEPT ![p] = 0]
  /\ wWake' = [wWake EXCEPT ![p] = 0]
  /\ UNCHANGED <<now, delayOf>>
  /\ UNCHANGED notLimVars

(***************************************************************************)
(* fetchWithRetry                                                          *)
(***************************************************************************)
\* An option the caller leaves undefined.
Undefined == 0 - 1
\* DEFAULT_FETCH_OPTIONS.retries, and the `?? 2` of the loop
DEFAULT_RETRIES == 2
\* DEFAULT_FETCH_OPTIONS.retryDelayMs, and the `?? 1000` of the backoff
DEFAULT_RETRY_DELAY_MS == 1000

\* response.status values the remote may answer with
Statuses == {200, 299, 304, 400, 429, 499, 503}
RetriesOptions == {Undefined} \cup (0..MaxRetries)
RetryDelayOptions == {Undefined} \cup (0..MaxRetryDelay)

\* retries ?? 2
Retries(r) == IF r = Undefined THEN DEFAULT_RETRIES ELSE r
\* retryDelayMs ?? 1000
RetryDelayMs(d) == IF d = Undefined THEN DEFAULT_RETRY_DELAY_MS ELSE d

\* Errors, by the fields the code reads: name, code, and the status its
\* message carries ("HTTP <status>: ...").
NoError == [name |-> "null", code |-> "", status |-> 0]
HttpError(st) == [name |-> "FetchError", code |-> "HTTP_ERROR", status |-> st]
TimeoutError == [name |-> "FetchError", code |-> "TIMEOUT", status |-> 0]
UnknownError == [name |-> "FetchError", code |-> "UNKNOWN", status |-> 0]
\* what fetch() rejects with when the controller aborts
AbortError == [name |-> "AbortError", code |-> "", status |-> 0]
\* what fetch() or response.text() rejects with on a connection failure
NetworkError == [name |-> "TypeError", code |-> "", status |-> 0]

\* response.ok
ResponseOkOnly200_m(st) == st = 200
ResponseOk(st) == 200 <= st /\ st <= 299

\* the loop condition: attempt <= (retries ?? 2)
LoopContinuesOneMore_m(a, r) == a <= Retries(r) + 1
LoopContinues(a, r) == a <= Retries(r)

\* the guard of the backoff: attempt < (retries ?? 2)
WaitsBeforeRetryOneMore_m(a, r) == a <= Retries(r)
WaitsBeforeRetry(a, r) == a < Retries(r)

\* the argument of the backoff sleep: (retryDelayMs ?? 1000) * (attempt + 1)
BackoffMsFromZero_m(d, a) == RetryDelayMs(d) * a
BackoffMs(d, a) == RetryDelayMs(d) * (a + 1)

\* the catch block's lastError: the caught error, an AbortError replaced by TIMEOUT
CaughtErrorKeepFirst_m(prev, e) ==
  IF prev # NoError THEN prev
  ELSE IF e.name = "AbortError" THEN TimeoutError ELSE e
CaughtError(prev, e) == IF e.name = "AbortError" THEN TimeoutError ELSE e

\* "Don't retry 4xx errors (except 429)"
IsTerminalAbove400_m(e) ==
  /\ e.name = "FetchError" /\ e.code = "HTTP_ERROR"
  /\ e.status > 400 /\ e.status < 500 /\ e.status # 429
IsTerminal(e) ==
  /\ e.name = "FetchError" /\ e.code = "HTTP_ERROR"
  /\ e.status >= 400 /\ e.status < 500 /\ e.status # 429

\* What the network did to one attempt: the status received (0: none) and how
\* the attempt ended: "ok" (body read), "http" (a non-ok status), "abort" (the
\* timeout fired), "network" (the connection failed, before or after the status).
Outcome(st, end) == [status |-> st, end |-> end]

FetchInit ==
  /\ fpc = "idle"
  /\ fRetries = Undefined
  /\ fRetryDelayMs = Undefined
  /\ attempt = 0
  /\ lastError = NoError
  /\ curStatus = 0
  /\ fResult = 0
  /\ thrown = NoError
  /\ outcomes = << >>
  /\ sleeps = << >>

\* fetchWithRetry(url, {retries: r, retryDelayMs: d}) up to its first request.
FetchCall(r, d) ==
  /\ fpc = "idle"
  /\ fRetries' = r
  /\ fRetryDelayMs' = d
  /\ attempt' = 0
  /\ lastError' = NoError
  /\ IF LoopContinues(0, r)
     THEN fpc' = "request" /\ UNCHANGED thrown
     ELSE fpc' = "thrown" /\ thrown' = UnknownError
  /\ UNCHANGED <<curStatus, fResult, outcomes, sleeps>>
  /\ UNCHANGED notFetchVars

\* The catch block and the end of the loop body, for the error e of an attempt
\* the network ended as `out`.
Catch(e, out) ==
  LET le == CaughtError(lastError, e)
  IN /\ lastError' = le
     /\ outcomes' = Append(outcomes, out)
     /\ curStatus' = 0
     /\ IF IsTerminal(le)
        THEN /\ fpc' = "thrown"
             /\ thrown' = le
             /\ UNCHANGED <<attempt, sleeps>>
        ELSE IF WaitsBeforeRetry(attempt, fRetries)
        THEN /\ fpc' = "backoff"
             /\ sleeps' = Append(sleeps, BackoffMs(fRetryDelayMs, attempt))
             /\ UNCHANGED <<attempt, thrown>>
        ELSE /\ attempt' = attempt + 1
             /\ IF LoopContinues(attempt + 1, fRetries)
                THEN fpc' = "request" /\ UNCHANGED thrown
                ELSE fpc' = "thrown" /\ thrown' = le
             /\ UNCHANGED sleeps
     /\ UNCHANGED <<fRetries, fRetryDelayMs, fResult>>

\* The response headers arrive with status st.
Respond(st) ==
  /\ fpc = "request"
  /\ IF ResponseOk(st)
     THEN /\ fpc' = "body"
          /\ curStatus' = st
          /\ UNCHANGED <<fRetries, fRetryDelayMs, attempt, lastError, fResult,
                         thrown, outcomes, sleeps>>
     ELSE Catch(HttpError(st), Outcome(st, "http"))
  /\ UNCHANGED notFetchVars

\* The timeout fires before the headers arrive: fetch() rejects with AbortError.
RequestTimesOut ==
  /\ fpc = "request"
  /\ Catch(AbortError, Outcome(0, "abort"))
  /\ UNCHANGED notFetchVars

\* The connection fails before the headers arrive.
RequestFails ==
  /\ fpc = "request"
  /\ Catch(NetworkError, Outcome(0, "network"))
  /\ UNCHANGED notFetchVars

\* response.text() resolves: the call returns the body.
BodyRead ==
  /\ fpc = "body"
  /\ fpc' = "returned"
  /\ fResult' = attempt + 1
  /\ outcomes' = Append(outcomes, Outcome(curStatus, "ok"))
  /\ curStatus' = 0
  /\ UNCHANGED <<fRetries, fRetryDelayMs, attempt, lastError, thrown, sleeps>>
  /\ UNCHANGED notFetchVars

\* response.text() rejects: the connection fails while the body is read.
BodyFails ==
  /\ fpc = "body"
  /\ Catch(NetworkError, Outcome(curStatus, "network"))
  /\ UNCHANGED notFetchVars

\* The backoff sleep ends: the loop goes on to the next attempt.
BackoffDone ==
  /\ fpc = "backoff"
  /\ attempt' = attempt + 1
  /\ IF LoopContinues(attempt + 1, fRetries)
     THEN fpc' = "request" /\ UNCHANGED thrown
     ELSE fpc' = "thrown" /\ thrown' = lastError
  /\ UNCHANGED <<fRetries, fRetryDelayMs, lastError, curStatus, fResult,
                 outcomes, sleeps>>
  /\ UNCHANGED notFetchVars

(***************************************************************************)
(* Deduplicator: normalizeText and generateContentHash                     *)
(*                                                                         *)
(* A string is a sequence of characters. The characters of the model: two  *)
(* letters in both cases, two kinds of whitespace, and the punctuation     *)
(* normalizeText and generateContentHash treat specially.                  *)
(***************************************************************************)
UpperChars == {"A", "B"}
LowerChars == {"a", "b"}
\* characters matching \s
SpaceChars == {" ", "\n"}
\* characters matching the class of the quote replacement: the ASCII double
\* and single quote
QuoteClass == {"\"", "'"}
\* characters matching the class of the dash replacement: en dash, em dash
DashClass == {"ENDASH", "EMDASH"}

\* content: string | null
Null == <<"NULL">>

\* String.prototype.toLowerCase, per character
LowerChar(c) ==
  CASE c = "A" -> "a"
    [] c = "B" -> "b"
    [] OTHER -> c
ToLowerCase(s) == [i \in 1..Len(s) |-> LowerChar(s[i])]

\* .replace(/\s+/g, " "): every maximal run of whitespace becomes one space
RECURSIVE CollapseSpaces(_)
CollapseSpaces(s) ==
  IF s = << >> THEN << >>
  ELSE IF Head(s) \in SpaceChars
  THEN IF Len(s) >= 2 /\ s[2] \in SpaceChars
       THEN CollapseSpaces(Tail(s))
       ELSE <<" ">> \o CollapseSpaces(Tail(s))
  ELSE <<Head(s)>> \o CollapseSpaces(Tail(s))

\* .replace(/[""'']/g, '"')
UnifyQuotes(s) == [i \in 1..Len(s) |-> IF s[i] \in QuoteClass THEN "\"" ELSE s[i]]

\* .replace(/[<en dash><em dash>]/g, "-")
UnifyDashes(s) == [i \in 1..Len(s) |-> IF s[i] \in DashClass THEN "-" ELSE s[i]]

\* String.prototype.trim
RECURSIVE TrimStart(_)
TrimStart(s) ==
  IF s # << >> /\ Head(s) \in SpaceChars THEN TrimStart(Tail(s)) ELSE s
RECURSIVE TrimEnd(_)
TrimEnd(s) ==
  IF s # << >> /\ s[Len(s)] \in SpaceChars
  THEN TrimEnd(SubSeq(s, 1, Len(s) - 1))
  ELSE s
Trim(s) == TrimEnd(TrimStart(s))

normalizeTextKeepCase_m(text) ==
  Trim(UnifyDashes(UnifyQuotes(CollapseSpaces(text))))
normalizeText(text) ==
  Trim(UnifyDashes(UnifyQuotes(CollapseSpaces(ToLowerCase(text)))))

\* String.prototype.slice(0, n), and Array.prototype.slice(0, n)
Slice0Inclusive_m(s, n) == SubSeq(s, 1, IF Len(s) < n + 1 THEN Len(s) ELSE n + 1)
Slice0(s, n) == SubSeq(s, 1, IF Len(s) < n THEN Len(s) ELSE n)

\* normalizedContent.slice(0, 500) of `content ? normalizeText(content) : ""`
ContentSampleOfRaw_m(content) ==
  IF content = Null \/ content = << >> THEN << >>
  ELSE normalizeText(Slice0(content, SampleLen))
ContentSample(content) ==
  IF content = Null \/ content = << >> THEN << >>
  ELSE Slice0(normalizeText(content), SampleLen)

\* generateContentHash: the digest is taken of `${normalizedTitle}|${contentSample}`.
\* SHA-256 is modelled as injective: the hash is the string it is taken of.
generateContentHashNoSeparator_m(t, content) == normalizeText(t) \o ContentSample(content)
generateContentHash(t, content) == normalizeText(t) \o <<"|">> \o ContentSample(content)

\* The strings the model hands to generateContentHash.
TextChars == {"a", "A", "b", " ", "\n"}
RECURSIVE StringsUpTo(_)
StringsUpTo(n) ==
  IF n = 0 THEN {<< >>}
  ELSE LET shorter == StringsUpTo(n - 1)
       IN shorter \cup {Append(s, c) : s \in {x \in shorter : Len(x) = n - 1}, c \in TextChars}

SwapCase(c) ==
  CASE c = "a" -> "A"
    [] c = "A" -> "a"
    [] c = "b" -> "B"
    [] c = "B" -> "b"
    [] OTHER -> c

\* s with the character at i replaced by c, with c inserted before position i,
\* and with the character at i removed
ReplaceAt(s, i, c) == [s EXCEPT ![i] = c]
InsertAt(s, i, c) == SubSeq(s, 1, i - 1) \o <<c>> \o SubSeq(s, i, Len(s))
RemoveAt(s, i) == SubSeq(s, 1, i - 1) \o SubSeq(s, i + 1, Len(s))

\* The strings that differ from s by one edit that changes only letter case.
CaseEdits(s) ==
  {ReplaceAt(s, i, SwapCase(s[i])) : i \in {j \in 1..Len(s) : SwapCase(s[j]) # s[j]}}

\* The strings that differ from s by one edit that changes only the length of a
\* whitespace run (a whitespace character added to or removed from a run that
\* stays non-empty) or the leading or trailing whitespace.
SpaceEdits(s) ==
  LET InRun(i) == s[i] \in SpaceChars
      grow == {InsertAt(s, i, c) : i \in {j \in 1..Len(s) : InRun(j)}, c \in SpaceChars}
      shrink == {RemoveAt(s, i) : i \in {j \in 1..Len(s) :
                    /\ InRun(j)
                    /\ \/ j > 1 /\ InRun(j - 1)
                       \/ j < Len(s) /\ InRun(j + 1)}}
      pad == {<<c>> \o s : c \in SpaceChars} \cup {Append(s, c) : c \in SpaceChars}
      strip == (IF s # << >> /\ InRun(1) THEN {Tail(s)} ELSE {})
               \cup (IF s # << >> /\ InRun(Len(s)) THEN {SubSeq(s, 1, Len(s) - 1)} ELSE {})
  IN grow \cup shrink \cup pad \cup strip

TextIdle ==
  /\ title = << >>
  /\ body = Null
  /\ fp0 = << >>
  /\ edited = {}
  /\ otherTitle = << >>
  /\ otherBody = Null

\* A title and a body are given, and hashed.
TextInit ==
  /\ title \in StringsUpTo(MaxTitleLen)
  /\ body \in StringsUpTo(MaxBodyLen) \cup {Null}
  /\ fp0 = generateContentHash(title, body)
  /\ edited = {}
  /\ otherTitle = << >>
  /\ otherBody = Null

\* The title is replaced by one that differs from it in letter case only.
EditTitleCase ==
  /\ \E t \in CaseEdits(title) : title' = t
  /\ edited' = edited \cup {"case"}
  /\ UNCHANGED <<body, fp0, otherTitle, otherBody>>
  /\ UNCHANGED notTextVars

\* The title is replaced by one that differs from it in whitespace only.
EditTitleSpace ==
  /\ \E t \in SpaceEdits(title) : Len(t) <= MaxTitleLen /\ title' = t
  /\ edited' = edited \cup {"space"}
  /\ UNCHANGED <<body, fp0, otherTitle, otherBody>>
  /\ UNCHANGED notTextVars

\* The body is replaced by one that differs from it in letter case only.
EditBodyCase ==
  /\ body # Null
  /\ \E b \in CaseEdits(body) : body' = b
  /\ edited' = edited \cup {"case"}
  /\ UNCHANGED <<title, fp0, otherTitle, otherBody>>
  /\ UNCHANGED notTextVars

\* The body is replaced by one that differs from it in whitespace only.
EditBodySpace ==
  /\ body # Null
  /\ \E b \in SpaceEdits(body) : Len(b) <= MaxBodyLen /\ body' = b
  /\ edited' = edited \cup {"space"}
  /\ UNCHANGED <<title, fp0, otherTitle, otherBody>>
  /\ UNCHANGED notTextVars

\* The quote and dash characters of the model, by family: the ASCII character
\* and its typographic variants.
DoubleQuotes == {"\"", "LDQUO", "RDQUO"}
SingleQuotes == {"'", "LSQUO", "RSQUO"}
Dashes == {"-", "ENDASH", "EMDASH"}
StraightChars == {"\"", "'", "-"}

\* The strings over the characters cs of length at most n.
RECURSIVE StringsOver(_, _)
StringsOver(cs, n) ==
  IF n = 0 THEN {<< >>}
  ELSE LET shorter == StringsOver(cs, n - 1)
       IN shorter \cup {Append(s, c) : s \in {x \in shorter : Len(x) = n - 1}, c \in cs}

\* The characters that differ from c only in being the typographic rather than
\* the ASCII variant of its family, or the reverse.
Variants(family, c) ==
  IF c \notin family THEN {}
  ELSE IF c \in StraightChars THEN family \ {c}
  ELSE family \cap StraightChars

\* The strings that differ from s by one edit that changes only the variant of
\* a quote character, and of a dash.
QuoteEdits(s) ==
  UNION {{ReplaceAt(s, i, c) :
            c \in Variants(DoubleQuotes, s[i]) \cup Variants(SingleQuotes, s[i])} :
         i \in 1..Len(s)}
DashEdits(s) ==
  UNION {{ReplaceAt(s, i, c) : c \in Variants(Dashes, s[i])} : i \in 1..Len(s)}

\* The strings of punctuation the model hands to generateContentHash: a
\* letter, the ASCII quotes and the hyphen; the edits bring in the variants.
PunctChars == {"a", "\"", "'", "-"}

\* A title and a body with punctuation are given, and hashed.
PunctInit ==
  /\ title \in StringsOver(PunctChars, MaxTitleLen)
  /\ body \in StringsOver(PunctChars, MaxBodyLen) \cup {Null}
  /\ fp0 = generateContentHash(title, body)
  /\ edited = {}
  /\ otherTitle = << >>
  /\ otherBody = Null

\* The title is replaced by one that differs from it in a quote variant only.
EditTitleQuote ==
  /\ \E t \in QuoteEdits(title) : title' = t
  /\ edited' = edited \cup {"quote"}
  /\ UNCHANGED <<body, fp0, otherTitle, otherBody>>
  /\ UNCHANGED notTextVars

\* The title is replaced by one that differs from it in a dash variant only.
EditTitleDash ==
  /\ \E t \in DashEdits(title) : title' = t
  /\ edited' = edited \cup {"dash"}
  /\ UNCHANGED <<body, fp0, otherTitle, otherBody>>
  /\ UNCHANGED notTextVars

\* The body is replaced by one that differs from it in a quote variant only.
EditBodyQuote ==
  /\ body # Null
  /\ \E b \in QuoteEdits(body) : body' = b
  /\ edited' = edited \cup {"quote"}
  /\ UNCHANGED <<title, fp0, otherTitle, otherBody>>
  /\ UNCHANGED notTextVars

\* The body is replaced by one that differs from it in a dash variant only.
EditBodyDash ==
  /\ body # Null
  /\ \E b \in DashEdits(body) : body' = b
  /\ edited' = edited \cup {"dash"}
  /\ UNCHANGED <<title, fp0, otherTitle, otherBody>>
  /\ UNCHANGED notTextVars

\* The characters of the two documents whose hashes are compared: a letter
\* and the separator of the hashed string.
PairChars == {"a", "|"}

\* A document is given, and hashed; the second document starts as its copy.
PairInit ==
  /\ title \in StringsOver(PairChars, MaxTitleLen)
  /\ body \in StringsOver(PairChars, MaxBodyLen) \cup {Null}
  /\ fp0 = generateContentHash(title, body)
  /\ edited = {}
  /\ otherTitle = title
  /\ otherBody = body

\* The strings one character longer or shorter than s at its end; no content
\* for the empty string, and the empty string for no content.
OneOff(s) ==
  IF s = Null THEN {<< >>}
  ELSE {Append(s, c) : c \in PairChars}
         \cup (IF s = << >> THEN {Null} ELSE {SubSeq(s, 1, Len(s) - 1)})

\* The second document is given the title t, one character off the title it has.
OtherTitle(t) ==
  /\ t \in OneOff(otherTitle)
  /\ otherTitle' = t
  /\ UNCHANGED <<title, body, fp0, edited, otherBody>>
  /\ UNCHANGED notTextVars

\* The second document is given the content b, one character off the content
\* it has.
OtherBody(b) ==
  /\ b \in OneOff(otherBody)
  /\ otherBody' = b
  /\ UNCHANGED <<title, body, fp0, edited, otherTitle>>
  /\ UNCHANGED notTextVars

(***************************************************************************)
(* Parser: parseArticleLinks, resolveUrl and isValidArticleUrl             *)
(*                                                                         *)
(* A URL is a sequence of tokens, each standing for a run of characters:   *)
(* the scheme with its separator, the labels and dots of the host, the     *)
(* slashes and segments of the path, "#" and the fragment. The tokens are  *)
(* chosen so that one string holds another as a substring exactly when its *)
(* token sequence holds the other's as a contiguous subsequence.           *)
(***************************************************************************)
\* String.prototype.includes
Includes(str, pat) ==
  \E i \in 0..(Len(str) - Len(pat)) : SubSeq(str, i + 1, i + Len(pat)) = pat

\* String.prototype.replace(pat, "") with a string pattern: the first
\* occurrence only
RemoveFirst(str, pat) ==
  IF ~Includes(str, pat) THEN str
  ELSE LET i == CHOOSE k \in 0..(Len(str) - Len(pat)) :
                  /\ SubSeq(str, k + 1, k + Len(pat)) = pat
                  /\ \A j \in 0..(k - 1) : SubSeq(str, j + 1, j + Len(pat)) # pat
       IN SubSeq(str, 1, i) \o SubSeq(str, i + Len(pat) + 1, Len(str))

\* String.prototype.toLowerCase, per token
LowerToken(t) ==
  CASE t = "TAG" -> "tag"
    [] t = "Read" -> "read"
    [] OTHER -> t
LowerUrl(url) == [i \in 1..Len(url) |-> LowerToken(url[i])]

\* href.startsWith("http")
StartsWithHttp(href) == href # << >> /\ Head(href) \in {"https://", "http://"}

\* config.baseUrl for a portal on the host h: the root of the host
BaseUrl(h) == <<"https://">> \o h \o <<"/">>

\* new URL(href, baseUrl).toString() for the hrefs of the model: a URL with a
\* scheme of its own stays as it is, a path replaces the base's path, a
\* fragment is appended to the base.
ResolveAgainst(href, h) ==
  CASE Head(href) = "javascript:" -> href
    [] Head(href) = "/" -> <<"https://">> \o h \o href
    [] OTHER -> BaseUrl(h) \o href

\* resolveUrl(href, config.baseUrl)
resolveUrl(href, h) ==
  IF StartsWithHttp(href) THEN href ELSE ResolveAgainst(href, h)

\* new URL(url).hostname: the tokens between the scheme and the path or the
\* fragment; empty for a URL without an authority
RECURSIVE UpToDelimiter(_)
UpToDelimiter(str) ==
  IF str = << >> \/ Head(str) \in {"/", "#", "?"} THEN << >>
  ELSE <<Head(str)>> \o UpToDelimiter(Tail(str))
Hostname(url) ==
  IF StartsWithHttp(url) THEN UpToDelimiter(Tail(url)) ELSE << >>

\* the skipPatterns of isValidArticleUrl
skipPatterns ==
  { <<"/", "tag", "/">>, <<"/", "tags", "/">>, <<"/", "category", "/">>,
    <<"/", "kategori", "/">>, <<"/", "author", "/">>, <<"/", "penulis", "/">>,
    <<"/", "page", "/">>, <<"/", "search">>, <<"/", "login">>,
    <<"/", "register">>, <<"#">>, <<"javascript:">> }

\* skipPatterns.some((pattern) => lowercaseUrl.includes(pattern))
MatchesSkipPatternCaseSensitive_m(url) ==
  \E pat \in skipPatterns : Includes(url, pat)
MatchesSkipPattern(url) ==
  \E pat \in skipPatterns : Includes(LowerUrl(url), pat)

\* urlDomain.includes(baseDomain.replace("www.", ""))
SameDomain(urlDomain, baseDomain) ==
  Includes(urlDomain, RemoveFirst(baseDomain, <<"www", ".">>))

\* isValidArticleUrl(url, config), config.baseUrl on the host h
isValidArticleUrl(url, h) ==
  /\ ~MatchesSkipPattern(url)
  /\ SameDomain(Hostname(url), Hostname(BaseUrl(h)))

\* seen.has(fullUrl)
SeenHasNever_m(seen, fullUrl) == FALSE
SeenHas(seen, fullUrl) == fullUrl \in seen

\* One call of the .each callback: the links and the seen set after the
\* element with the attribute href (Null: the element has none).
EachElement(st, href, h) ==
  IF href = Null \/ href = << >> THEN st
  ELSE LET fullUrl == resolveUrl(href, h)
       IN IF SeenHas(st.seen, fullUrl) THEN st
          ELSE IF isValidArticleUrl(fullUrl, h)
          THEN [links |-> Append(st.links, fullUrl), seen |-> st.seen \cup {fullUrl}]
          ELSE st

\* parseArticleLinks(html, config): the callback over the matched elements
\* in document order
RECURSIVE EachFrom(_, _, _)
EachFrom(st, hrefs, h) ==
  IF hrefs = << >> THEN st
  ELSE EachFrom(EachElement(st, Head(hrefs), h), Tail(hrefs), h)
parseArticleLinks(hrefs, h) ==
  EachFrom([links |-> << >>, seen |-> {}], hrefs, h).links

\* The hosts a portal is configured on, and the hosts of the model's links:
\* the portal's, a subdomain of it, and hosts that are neither.
SiteHost == <<"n", ".", "c">>
BaseHosts == {SiteHost, <<"www", ".">> \o SiteHost}
SubHost == <<"m", ".">> \o SiteHost
ForeignHosts == {<<"x", ".", "c">>, <<"x">> \o SiteHost, SiteHost \o <<".", "x">>}

DocPath == <<"/", "read", "/", "1">>
\* hrefs of documents: relative, in upper case, absolute, on a subdomain
DocHrefs ==
  { DocPath, <<"/", "Read", "/", "2">>,
    <<"https://">> \o SiteHost \o DocPath,
    <<"https://">> \o SubHost \o DocPath }
\* the href of a document with a fragment
FragmentDocHrefs == {DocPath \o <<"#", "c">>}
\* hrefs of pages that are no documents, a fragment-only and a script link
NonDocHrefs ==
  { <<"/", "tag", "/", "x">>, <<"/", "TAG", "/", "x">>, <<"/", "search">>,
    <<"#", "top">>, <<"javascript:", "void">> }
\* hrefs of documents on other hosts
ForeignHrefs == {<<"https://">> \o fh \o DocPath : fh \in ForeignHosts}
Hrefs == DocHrefs \cup FragmentDocHrefs \cup NonDocHrefs \cup ForeignHrefs \cup {Null}

LinkIdle ==
  /\ baseHost = SiteHost
  /\ anchors = << >>
  /\ links = << >>

\* A portal's configuration is loaded; no listing page is parsed yet.
LinkInit ==
  /\ baseHost \in BaseHosts
  /\ anchors = << >>
  /\ links = << >>

\* parseArticleLinks is called for a listing page that has the anchors of the
\* page parsed before and, after them, one with the attribute href.
ParseListing(href) ==
  /\ Len(anchors) < MaxAnchors
  /\ anchors' = Append(anchors, href)
  /\ links' = parseArticleLinks(anchors', baseHost)
  /\ UNCHANGED baseHost
  /\ UNCHANGED notLinkVars

(***************************************************************************)
(* Parser: parseArticle, extractTitle and cleanText                        *)
(***************************************************************************)
\* .replace(/\n\s*\n/g, "\n\n"): a line break, whitespace and a last line
\* break become two line breaks
SpaceRunLen(s) ==
  IF \E k \in 1..Len(s) : s[k] \notin SpaceChars
  THEN (CHOOSE k \in 1..Len(s) : s[k] \notin SpaceChars /\ \A j \in 1..(k - 1) : s[j] \in SpaceChars) - 1
  ELSE Len(s)
RECURSIVE CollapseBlankLines(_)
CollapseBlankLines(s) ==
  IF s = << >> THEN << >>
  ELSE IF Head(s) = "\n"
  THEN LET rest == Tail(s)
           breaks == {k \in 1..SpaceRunLen(rest) : rest[k] = "\n"}
       IN IF breaks = {}
          THEN <<"\n">> \o CollapseBlankLines(rest)
          ELSE LET last == CHOOSE k \in breaks : \A j \in breaks : j <= k
               IN <<"\n", "\n">> \o CollapseBlankLines(SubSeq(rest, last + 1, Len(rest)))
  ELSE <<Head(s)>> \o CollapseBlankLines(Tail(s))

\* cleanText
cleanText(text) == Trim(CollapseBlankLines(CollapseSpaces(text)))

\* text && text.length > 10
TitleLongEnoughFrom10_m(text) == Len(text) >= 10
TitleLongEnough(text) == Len(text) > 10

\* extractTitle: the loop over the selectors, from selector i on; texts[i] is
\* $(sel).first().text()
RECURSIVE ExtractTitleFrom(_, _)
ExtractTitleFrom(texts, i) ==
  IF i > Len(texts) THEN Null
  ELSE LET text == Trim(texts[i])
       IN IF TitleLongEnough(text) THEN cleanText(text)
          ELSE ExtractTitleFrom(texts, i + 1)
extractTitle(texts) == ExtractTitleFrom(texts, 1)

\* parseArticle, as far as the title: null when extractTitle returns null or
\* an empty string, else a RawArticle with the title
parseArticle(texts) ==
  LET t == extractTitle(texts)
  IN IF t = Null \/ t = << >> THEN Null ELSE t

\* n times the character c
RECURSIVE Repeat(_, _)
Repeat(c, n) == IF n = 0 THEN << >> ELSE <<c>> \o Repeat(c, n - 1)

\* The texts of the model's title elements: none, whitespace only, ten and
\* eleven letters, ten and eleven letters in whitespace, and two letters with
\* ten spaces between them.
TitleTexts ==
  { << >>, Repeat(" ", 3), Repeat("a", 10), Repeat("a", 11),
    <<" ">> \o Repeat("a", 10) \o <<"\n">>, <<"\n">> \o Repeat("b", 11) \o <<" ">>,
    <<"a">> \o Repeat(" ", 10) \o <<"b">> }

TitleIdle ==
  /\ selTexts = << >>
  /\ ppc = "idle"
  /\ parsedTitle = Null

\* A document page is fetched: what each title selector matches in it.
TitleInit ==
  /\ selTexts \in [1..NumTitleSelectors -> TitleTexts]
  /\ ppc = "idle"
  /\ parsedTitle = Null

\* parseArticle(html, url, config)
ParseArticle ==
  /\ ppc = "idle"
  /\ ppc' = "parsed"
  /\ parsedTitle' = parseArticle(selTexts)
  /\ UNCHANGED selTexts
  /\ UNCHANGED notTitleVars

(***************************************************************************)
(* Parser: extractContent                                                  *)
(***************************************************************************)
\* text && text.length > 20
ParagraphLongEnough(text) == text # << >> /\ Len(text) > 20

\* the local paragraphs: $(p).text().trim() of each <p>, kept when long enough
RECURSIVE Paragraphs(_)
Paragraphs(ps) ==
  IF ps = << >> THEN << >>
  ELSE LET text == Trim(Head(ps))
       IN (IF ParagraphLongEnough(text) THEN <<text>> ELSE << >>)
            \o Paragraphs(Tail(ps))

\* Array.prototype.join(sep)
RECURSIVE Join(_, _)
Join(ps, sep) ==
  IF ps = << >> THEN << >>
  ELSE IF Len(ps) = 1 THEN Head(ps)
  ELSE Head(ps) \o sep \o Join(Tail(ps), sep)

\* element.text(): the text of the element's descendants, one after the other
FullText(ps) == Join(ps, << >>)

\* the loop of extractContent over the elements the selectors match
RECURSIVE ExtractContentFrom(_)
ExtractContentFrom(cs) ==
  IF cs = << >> THEN Null
  ELSE LET paragraphs == Paragraphs(Head(cs))
           fullText == Trim(FullText(Head(cs)))
       IN IF Len(paragraphs) > 0
          THEN cleanText(Join(paragraphs, <<"\n", "\n">>))
          ELSE IF fullText # << >> /\ Len(fullText) > 50
          THEN cleanText(fullText)
          ELSE ExtractContentFrom(Tail(cs))

\* extractContent($, config.contentSelector)
extractContent(cs) == ExtractContentFrom(cs)

\* The paragraph texts of the model: 21 letters, 21 other letters between
\* spaces, 20 letters, and 19 letters.
ParagraphTexts ==
  { Repeat("a", 21),
    <<" ">> \o Repeat("b", 21) \o <<"\n">>,
    Repeat("a", 20),
    Repeat("b", 19) }

RECURSIVE SeqsUpTo(_, _)
SeqsUpTo(S, n) ==
  IF n = 0 THEN {<< >>}
  ELSE LET shorter == SeqsUpTo(S, n - 1)
       IN shorter \cup {Append(q, x) : q \in {y \in shorter : Len(y) = n - 1}, x \in S}

ContentIdle ==
  /\ containers = << >>
  /\ kpc = "idle"
  /\ parsedContent = Null

\* A document page is fetched: the paragraphs of each content container.
ContentInit ==
  /\ containers \in SeqsUpTo(SeqsUpTo(ParagraphTexts, MaxParagraphs), MaxContainers)
  /\ kpc = "idle"
  /\ parsedContent = Null

\* extractContent($, config.contentSelector)
ExtractContent ==
  /\ kpc = "idle"
  /\ kpc' = "parsed"
  /\ parsedContent' = extractContent(containers)
  /\ UNCHANGED containers
  /\ UNCHANGED notContentVars

(***************************************************************************)
(* Deduplicator: normalizeUrl                                              *)
(*                                                                         *)
(* A URL is a sequence of tokens: the scheme and host, the slashes and     *)
(* segments of the path, "?", and the names of the query parameters with   *)
(* "&" between them (a parameter's value goes with its name).              *)
(***************************************************************************)
trackingParams == {"utm_source", "utm_medium", "utm_campaign", "ref", "source"}

\* String.prototype.toLowerCase, per token
LowerPart(t) ==
  CASE t = "A" -> "a"
    [] t = "ID" -> "id"
    [] t = "REF" -> "ref"
    [] t = "UTM_SOURCE" -> "utm_source"
    [] OTHER -> t
LowerParts(url) == [i \in 1..Len(url) |-> LowerPart(url[i])]

\* new URL(url): the tokens up to the query, with the path "/" for a URL that
\* has none, and searchParams, the names of the query parameters in order
HasQuery(url) == \E i \in 1..Len(url) : url[i] = "?"
QueryAt(url) == CHOOSE i \in 1..Len(url) : url[i] = "?"
WrittenPath(url) ==
  IF HasQuery(url) THEN SubSeq(url, 1, QueryAt(url) - 1) ELSE url
WrittenQuery(url) ==
  IF HasQuery(url) THEN SubSeq(url, QueryAt(url), Len(url)) ELSE << >>
UrlPath(url) ==
  IF Len(WrittenPath(url)) = 1 THEN WrittenPath(url) \o <<"/">> ELSE WrittenPath(url)
RECURSIVE WithoutSeparators(_)
WithoutSeparators(q) ==
  IF q = << >> THEN << >>
  ELSE (IF Head(q) \in {"?", "&"} THEN << >> ELSE <<Head(q)>>)
         \o WithoutSeparators(Tail(q))
SearchParams(url) == WithoutSeparators(WrittenQuery(url))

\* trackingParams.forEach((param) => parsed.searchParams.delete(param))
RECURSIVE DeleteTracking(_)
DeleteTracking(params) ==
  IF params = << >> THEN << >>
  ELSE (IF Head(params) \in trackingParams THEN << >> ELSE <<Head(params)>>)
         \o DeleteTracking(Tail(params))

\* parsed.toString()
UrlToString(path, params) ==
  IF params = << >> THEN path
  ELSE path \o <<"?">> \o Join([i \in 1..Len(params) |-> <<params[i]>>], <<"&">>)

\* .replace(/\/+$/, "")
RECURSIVE StripTrailingSlashes(_)
StripTrailingSlashes(url) ==
  IF url # << >> /\ url[Len(url)] = "/"
  THEN StripTrailingSlashes(SubSeq(url, 1, Len(url) - 1))
  ELSE url

\* normalizeUrl(url), for a URL that new URL() parses
normalizeUrl(url) ==
  StripTrailingSlashes(
    LowerParts(UrlToString(UrlPath(url), DeleteTracking(SearchParams(url)))))

\* generateUrlHash(url): SHA-256, modelled as injective, of normalizeUrl(url)
generateUrlHash(url) == normalizeUrl(url)

\* The URLs of the model.
UrlPaths ==
  { <<"https://h">>, <<"https://h", "/">>, <<"https://h", "/", "a">>,
    <<"https://h", "/", "A">>, <<"https://h", "/", "a", "/">> }
ParamNames == {"utm_source", "UTM_SOURCE", "ref", "id", "ID"}
ModelUrls ==
  {UrlToString(path, params) :
     path \in UrlPaths, params \in SeqsUpTo(ParamNames, MaxParams)}

\* The other letter case of a token.
SwapPart(t) ==
  CASE t = "a" -> "A"
    [] t = "A" -> "a"
    [] t = "id" -> "ID"
    [] t = "ID" -> "id"
    [] t = "ref" -> "REF"
    [] t = "REF" -> "ref"
    [] t = "utm_source" -> "UTM_SOURCE"
    [] t = "UTM_SOURCE" -> "utm_source"
    [] OTHER -> t

\* The slashes a path ends with.
RECURSIVE SlashesAtEnd(_)
SlashesAtEnd(path) ==
  IF path # << >> /\ path[Len(path)] = "/"
  THEN 1 + SlashesAtEnd(SubSeq(path, 1, Len(path) - 1))
  ELSE 0

UrlIdle ==
  /\ uFirst = << >>
  /\ uUrl = << >>

\* A URL is given.
UrlInit ==
  /\ uFirst \in ModelUrls
  /\ uUrl = uFirst

\* One token of the URL changes its letter case.
EditUrlCase(i) ==
  /\ i \in 1..Len(uUrl)
  /\ SwapPart(uUrl[i]) # uUrl[i]
  /\ uUrl' = [uUrl EXCEPT ![i] = SwapPart(@)]
  /\ UNCHANGED uFirst
  /\ UNCHANGED notUrlVars

\* A slash is added to or removed from the end of the URL's path: of a URL
\* whose query, if it has one, holds known tracking parameters only.
EditUrlSlash(add) ==
  /\ \A i \in 1..Len(SearchParams(uUrl)) : SearchParams(uUrl)[i] \in trackingParams
  /\ LET path == WrittenPath(uUrl)
     IN IF add
        THEN /\ SlashesAtEnd(path) < MaxSlashes
             /\ uUrl' = path \o <<"/">> \o WrittenQuery(uUrl)
        ELSE /\ SlashesAtEnd(path) > 0
             /\ uUrl' = SubSeq(path, 1, Len(path) - 1) \o WrittenQuery(uUrl)
  /\ UNCHANGED uFirst
  /\ UNCHANGED notUrlVars

\* A known tracking parameter is added to the URL's query at position i, or
\* the one at position i is removed.
EditUrlTracking(i, name) ==
  /\ LET params == SearchParams(uUrl)
     IN \/ /\ i \in 1..(Len(params) + 1)
           /\ Len(params) < MaxParams
           /\ uUrl' = UrlToString(WrittenPath(uUrl),
                        SubSeq(params, 1, i - 1) \o <<name>> \o SubSeq(params, i, Len(params)))
        \/ /\ i \in 1..Len(params)
           /\ params[i] = name
           /\ uUrl' = UrlToString(WrittenPath(uUrl),
                        SubSeq(params, 1, i - 1) \o SubSeq(params, i + 1, Len(params)))
  /\ UNCHANGED uFirst
  /\ UNCHANGED notUrlVars

(***************************************************************************)
(* The remote, the store and the crawl orchestrator                        *)
(***************************************************************************)
\* The portals of the model; PORTAL_CONFIGS lists the first of them.
Max(a, b) == IF a > b THEN a ELSE b
Portals == 1..Max(NumPortals, NumBatchedPortals)
Configs(n) == [i \in 1..n |-> i]
MAX_ARTICLES_PER_PORTAL == 15
MAX_CONCURRENT_PORTALS == 3
\* the argument of sleep() between batches
BATCH_SLEEP_MS == 2000

\* The article URLs of portal p: the i-th link of its listing page is <<p, i>>.
Urls == Portals \X (1..Max(MaxLinks, CapLinks))
LinksOf(p, n) == [i \in 1..n |-> <<p, i>>]

\* What parseArticle makes of a document page: null (no title found) or a
\* RawArticle, of which the model keeps title and content.
NoArticle == [title |-> << >>, content |-> Null]
Articles ==
  { [title |-> <<"a">>, content |-> Null],
    [title |-> <<"A">>, content |-> Null],
    [title |-> <<"b">>, content |-> <<"a", " ", "b">>] }

\* What a request yields, fetchWithRetry and the parser taken together: for a
\* listing page, a failure or the links parseArticleLinks extracts; for a
\* document page, a failure or what parseArticle returns.
Unseen == [kind |-> "unseen"]
Failed == [kind |-> "fail"]
Listing(n) == [kind |-> "ok", n |-> n]
Page(a) == [kind |-> "ok", article |-> a]
ListingOutcomes == {Failed} \cup {Listing(n) : n \in 0..MaxLinks}
DocOutcomes == {Failed} \cup {Page(a) : a \in Articles \cup {NoArticle}}

\* getNewsArticleByHash(hash) !== null
StoreHas(st, hash) == \E i \in 1..Len(st) : st[i].contentHash = hash
\* insertNewsArticle(record)
StoreInsert(st, rec) == Append(st, rec)

\* isArticleDuplicate(hash)
isArticleDuplicateNever_m(st, hash) == FALSE
isArticleDuplicate(st, hash) == StoreHas(st, hash)

\* chunkArray(PORTAL_CONFIGS, MAX_CONCURRENT_PORTALS): the number of chunks and
\* the k-th chunk
NumBatchesFirstOnly_m == IF portalConfigs = << >> THEN 0 ELSE 1
NumBatches ==
  (Len(portalConfigs) + MAX_CONCURRENT_PORTALS - 1) \div MAX_CONCURRENT_PORTALS
BatchOfAll_m(k) == IF k = 1 THEN portalConfigs ELSE << >>
Batch(k) ==
  LET first == (k - 1) * MAX_CONCURRENT_PORTALS
      size == IF Len(portalConfigs) - first < MAX_CONCURRENT_PORTALS
              THEN Len(portalConfigs) - first ELSE MAX_CONCURRENT_PORTALS
  IN [i \in 1..size |-> portalConfigs[first + i]]
InBatch(k) == {Batch(k)[i] : i \in 1..Len(Batch(k))}

CrawlResultSuccess_m(p, ok) ==
  [portal |-> p, success |-> TRUE, articlesFound |-> articlesFound[p],
   articlesCrawled |-> articlesCrawled[p], newArticles |-> newArticles[p],
   errors |-> errors[p]]
CrawlResult(p, ok) ==
  [portal |-> p, success |-> ok, articlesFound |-> articlesFound[p],
   articlesCrawled |-> articlesCrawled[p], newArticles |-> newArticles[p],
   errors |-> errors[p]]
NoResult == [portal |-> 0]

RECURSIVE SumOverTail_m(_, _)
SumOverTail_m(rs, field) ==
  IF Len(rs) <= 1 THEN 0 ELSE rs[2][field] + SumOverTail_m(Tail(rs), field)
RECURSIVE SumOver(_, _)
SumOver(rs, field) ==
  IF rs = << >> THEN 0 ELSE Head(rs)[field] + SumOver(Tail(rs), field)

\* the object crawlAllPortals returns
CrawlSummary(rs) ==
  LET successful == Cardinality({i \in 1..Len(rs) : rs[i].success})
  IN [totalPortals |-> Len(portalConfigs),
      successfulPortals |-> successful,
      failedPortals |-> Len(portalConfigs) - successful,
      totalArticlesFound |-> SumOver(rs, "articlesFound"),
      totalNewArticles |-> SumOver(rs, "newArticles"),
      results |-> rs]
NoSummary == [totalPortals |-> 0]

\* Nothing has run yet, with the first n portals configured and a remote that
\* yields world[u] for document u, where that is settled beforehand.
CrawlInitWith(n, world) ==
  /\ portalConfigs = Configs(n)
  /\ run = 0
  /\ opc = "idle"
  /\ batchNo = 0
  /\ oSleepStart = 0
  /\ results = << >>
  /\ summary = NoSummary
  /\ cpc = [p \in Portals |-> "idle"]
  /\ urlsToProcess = [p \in Portals |-> << >>]
  /\ idx = [p \in Portals |-> 0]
  /\ articlesFound = [p \in Portals |-> 0]
  /\ articlesCrawled = [p \in Portals |-> 0]
  /\ newArticles = [p \in Portals |-> 0]
  /\ errors = [p \in Portals |-> << >>]
  /\ returned = [p \in Portals |-> NoResult]
  /\ requests = [p \in Portals |-> << >>]
  /\ tries = [p \in Portals |-> 0]
  /\ httpAttempts = [p \in Portals |-> 0]
  /\ store = << >>
  /\ listingOf = [p \in Portals |-> Unseen]
  /\ docOf = world

NoWorld == [u \in Urls |-> Unseen]
CrawlInit == CrawlInitWith(NumPortals, NoWorld)

\* The document every page of the remote holds when batches and cap are observed.
ArticleA == [title |-> <<"a">>, content |-> Null]

\* More portals than one batch holds, in front of a remote not settled yet.
BatchesInit == CrawlInitWith(NumBatchedPortals, NoWorld)

\* One portal, in front of a remote of which every k-th document request fails
\* and every other yields the document, for k = 1, 2 or 3.
CapWorlds ==
  {[u \in Urls |-> IF u[2] % k = 0 THEN Failed ELSE Page(ArticleA)] : k \in 1..3}
CapInit == \E world \in CapWorlds : CrawlInitWith(1, world)

\* Promise.all(batch.map(crawlPortal)) for batch k: every crawlPortal of the
\* batch runs up to its first await, inside waitForDomain for its listing page.
\* (The clock is not part of this component: the two suspensions of a request,
\* in waitForDomain and in fetchWithRetry, are one here.)
StartBatch(k) ==
  /\ batchNo' = k
  /\ opc' = "batch"
  /\ cpc' = [p \in Portals |-> IF p \in InBatch(k) THEN "listing" ELSE "idle"]
  /\ urlsToProcess' = [p \in Portals |-> << >>]
  /\ idx' = [p \in Portals |-> 0]
  /\ articlesFound' = [p \in Portals |-> 0]
  /\ articlesCrawled' = [p \in Portals |-> 0]
  /\ newArticles' = [p \in Portals |-> 0]
  /\ errors' = [p \in Portals |-> << >>]
  /\ returned' = [p \in Portals |-> NoResult]
  /\ requests' = [p \in Portals |-> << >>]
  /\ tries' = [p \in Portals |-> 0]
  /\ httpAttempts' = [p \in Portals |-> 0]

\* crawlAllPortals() is called: once more, after the previous call returned.
CrawlAllStart ==
  /\ opc \in {"idle", "done"}
  /\ run < MaxRuns
  /\ run' = run + 1
  /\ results' = << >>
  /\ summary' = NoSummary
  /\ StartBatch(1)
  /\ UNCHANGED <<store, listingOf, docOf>>
  /\ UNCHANGED <<portalConfigs, oSleepStart>>
  /\ UNCHANGED notCrawlVars

\* The last attempt of the fetchWithRetry in progress for p ends, and with it
\* the call.
AttemptEnds(p) ==
  /\ tries' = [tries EXCEPT ![p] = 0]
  /\ httpAttempts' = [httpAttempts EXCEPT ![p] = @ + 1]

\* The request of p's listing page yields o: the same as the first time, if it
\* was requested before.
ListingYields(p, o) ==
  /\ listingOf[p] \in {Unseen, o}
  /\ listingOf' = [listingOf EXCEPT ![p] = o]
  /\ AttemptEnds(p)

\* The request of document u, made by the crawlPortal of its portal, yields
\* o, likewise.
DocYields(u, o) ==
  /\ docOf[u] \in {Unseen, o}
  /\ docOf' = [docOf EXCEPT ![u] = o]
  /\ requests' = [requests EXCEPT ![u[1]] = Append(@, u)]
  /\ AttemptEnds(u[1])

\* crawlPortal returns r for portal p.
Return(p, r) ==
  /\ cpc' = [cpc EXCEPT ![p] = "returned"]
  /\ returned' = [returned EXCEPT ![p] = r]

NextArticleAgain_m(p) ==
  /\ cpc' = [cpc EXCEPT ![p] = "article"]
  /\ UNCHANGED <<idx, returned>>
NextArticleReturns_m(p) ==
  /\ Return(p, [portal |-> p, success |-> TRUE,
                articlesFound |-> articlesFound[p],
                articlesCrawled |-> articlesCrawled'[p],
                newArticles |-> newArticles'[p],
                errors |-> errors'[p]])
  /\ UNCHANGED idx
\* The end of one iteration of the loop over urlsToProcess, with the counters
\* and errors as the iteration leaves them: the next iteration begins inside
\* waitForDomain, or crawlPortal returns its result.
NextArticle(p) ==
  IF idx[p] < Len(urlsToProcess[p])
  THEN /\ idx' = [idx EXCEPT ![p] = @ + 1]
       /\ cpc' = [cpc EXCEPT ![p] = "article"]
       /\ UNCHANGED returned
  ELSE /\ Return(p, [portal |-> p, success |-> TRUE,
                     articlesFound |-> articlesFound[p],
                     articlesCrawled |-> articlesCrawled'[p],
                     newArticles |-> newArticles'[p],
                     errors |-> errors'[p]])
       /\ UNCHANGED idx

\* !article || !article.title, negated
HasTitleAlways_m(a) == TRUE
HasTitle(a) == a # NoArticle /\ a.title # << >>

\* The try block of crawlPortal that encloses each place an error is thrown
\* from: the request of the listing page, the request of a document, and the
\* insert into the store.
TryOfInsertOutside_m(site) ==
  CASE site = "listing" -> "outer"
    [] site = "article" -> "inner"
    [] site = "insert" -> "none"
TryOf(site) ==
  CASE site = "listing" -> "outer"
    [] site = "article" -> "inner"
    [] site = "insert" -> "inner"

\* An error is thrown at `site` while crawlPortal(p) runs: the inner catch
\* records it and the loop goes on; the outer catch records it and returns the
\* failure; an error no try block encloses rejects crawlPortal's promise.
Throws(p, site, url) ==
  CASE TryOf(site) = "inner" ->
         /\ errors' = [errors EXCEPT ![p] = Append(@, <<"Article error", url>>)]
         /\ NextArticle(p)
    [] TryOf(site) = "outer" ->
         /\ errors' = [errors EXCEPT ![p] = Append(@, <<"Portal error">>)]
         /\ Return(p, [CrawlResult(p, FALSE) EXCEPT !.errors = errors'[p]])
         /\ UNCHANGED idx
    [] OTHER ->
         /\ cpc' = [cpc EXCEPT ![p] = "rejected"]
         /\ UNCHANGED <<errors, returned, idx>>

\* fetchWithRetry(config.baseUrl) throws: the outer catch returns the failure.
ListingFails(p) ==
  /\ cpc[p] = "listing"
  /\ ListingYields(p, Failed)
  /\ Throws(p, "listing", << >>)
  /\ UNCHANGED <<run, opc, batchNo, results, summary, urlsToProcess,
                 articlesFound, articlesCrawled, newArticles, requests, store,
                 docOf>>
  /\ UNCHANGED <<portalConfigs, oSleepStart>>
  /\ UNCHANGED notCrawlVars

\* fetchWithRetry(config.baseUrl) returns a page with n article links: the loop
\* over the first MAX_ARTICLES_PER_PORTAL of them begins, or, with no link,
\* crawlPortal returns.
ListingArrives(p, n) ==
  /\ cpc[p] = "listing"
  /\ ListingYields(p, Listing(n))
  /\ LET articleUrls == LinksOf(p, n)
         toProcess == Slice0(articleUrls, MAX_ARTICLES_PER_PORTAL)
     IN /\ articlesFound' = [articlesFound EXCEPT ![p] = Len(articleUrls)]
        /\ urlsToProcess' = [urlsToProcess EXCEPT ![p] = toProcess]
        /\ IF toProcess = << >>
           THEN /\ Return(p, [CrawlResult(p, TRUE) EXCEPT !.articlesFound = 0])
                /\ UNCHANGED idx
           ELSE /\ cpc' = [cpc EXCEPT ![p] = "article"]
                /\ idx' = [idx EXCEPT ![p] = 1]
                /\ UNCHANGED returned
  /\ UNCHANGED <<run, opc, batchNo, results, summary, articlesCrawled,
                 newArticles, errors, requests, store, docOf>>
  /\ UNCHANGED <<portalConfigs, oSleepStart>>
  /\ UNCHANGED notCrawlVars

\* fetchWithRetry(url) throws: the inner catch records the error.
ArticleFails(p) ==
  /\ cpc[p] = "article"
  /\ LET url == urlsToProcess[p][idx[p]]
     IN /\ DocYields(url, Failed)
        /\ UNCHANGED <<articlesCrawled, newArticles, store>>
        /\ Throws(p, "article", url)
  /\ UNCHANGED <<run, opc, batchNo, results, summary, urlsToProcess,
                 articlesFound, listingOf>>
  /\ UNCHANGED <<portalConfigs, oSleepStart>>
  /\ UNCHANGED notCrawlVars

\* fetchWithRetry(url) returns a page that parseArticle makes `a` of: without a
\* title it is skipped; otherwise it is counted, hashed, looked up in the store
\* and, when no record has its hash, inserted and counted as new.
ArticleArrives(p, a) ==
  /\ cpc[p] = "article"
  /\ LET url == urlsToProcess[p][idx[p]]
         contentHash == generateContentHash(a.title, a.content)
     IN /\ DocYields(url, Page(a))
        /\ IF ~HasTitle(a)
           THEN UNCHANGED <<articlesCrawled, newArticles, store>>
           ELSE /\ articlesCrawled' = [articlesCrawled EXCEPT ![p] = @ + 1]
                /\ IF isArticleDuplicate(store, contentHash)
                   THEN UNCHANGED <<newArticles, store>>
                   ELSE /\ store' = StoreInsert(store,
                                      [url |-> url, title |-> a.title,
                                       content |-> a.content, portal |-> p,
                                       contentHash |-> contentHash])
                        /\ newArticles' = [newArticles EXCEPT ![p] = @ + 1]
  /\ UNCHANGED errors
  /\ NextArticle(p)
  /\ UNCHANGED <<run, opc, batchNo, results, summary, urlsToProcess,
                 articlesFound, listingOf>>
  /\ UNCHANGED <<portalConfigs, oSleepStart>>
  /\ UNCHANGED notCrawlVars

\* fetchWithRetry(url) returns a page that parseArticle makes `a` of, titled
\* and not in the store, and insertNewsArticle throws: the document is counted
\* as crawled, not as new, and nothing is stored.
InsertFails(p, a) ==
  /\ cpc[p] = "article"
  /\ HasTitle(a)
  /\ ~isArticleDuplicate(store, generateContentHash(a.title, a.content))
  /\ LET url == urlsToProcess[p][idx[p]]
     IN /\ DocYields(url, Page(a))
        /\ articlesCrawled' = [articlesCrawled EXCEPT ![p] = @ + 1]
        /\ UNCHANGED <<newArticles, store>>
        /\ Throws(p, "insert", url)
  /\ UNCHANGED <<run, opc, batchNo, results, summary, urlsToProcess,
                 articlesFound, listingOf>>
  /\ UNCHANGED <<portalConfigs, oSleepStart>>
  /\ UNCHANGED notCrawlVars

\* An attempt of the fetchWithRetry in progress for p fails with an error
\* that is retried: after the backoff the next attempt is made.
AttemptRetried(p) ==
  /\ cpc[p] \in {"listing", "article"}
  /\ WaitsBeforeRetry(tries[p], Undefined)
  /\ tries' = [tries EXCEPT ![p] = @ + 1]
  /\ httpAttempts' = [httpAttempts EXCEPT ![p] = @ + 1]
  /\ UNCHANGED <<run, opc, batchNo, results, summary, cpc, urlsToProcess, idx,
                 articlesFound, articlesCrawled, newArticles, errors, returned,
                 requests, store, listingOf, docOf>>
  /\ UNCHANGED <<portalConfigs, oSleepStart>>
  /\ UNCHANGED notCrawlVars

\* Promise.all settles: when every crawlPortal of the batch resolved, the
\* batch's results are pushed, in the batch's order, and crawlAllPortals
\* sleeps; when one rejected, the await throws out of crawlAllPortals.
BatchDone ==
  /\ opc = "batch"
  /\ IF \E p \in InBatch(batchNo) : cpc[p] = "rejected"
     THEN /\ opc' = "raised"
          /\ UNCHANGED results
     ELSE /\ \A p \in InBatch(batchNo) : cpc[p] = "returned"
          /\ results' = results \o [i \in 1..Len(Batch(batchNo)) |-> returned[Batch(batchNo)[i]]]
          /\ opc' = "sleep"
  /\ oSleepStart' = now
  /\ UNCHANGED <<tries, httpAttempts>>
  /\ UNCHANGED <<run, batchNo, summary, cpc, urlsToProcess, idx, articlesFound,
                 articlesCrawled, newArticles, errors, returned, requests,
                 store, listingOf, docOf>>
  /\ UNCHANGED portalConfigs
  /\ UNCHANGED notCrawlVars

\* The clock when a timer set at `start` for `ms` fires, read at t: timers do
\* not fire early.
TimerFiresAtOnce_m(t, start, ms) == t
TimerFires(t, start, ms) == IF t < start + ms THEN start + ms ELSE t

\* The sleep between batches ends: the next batch starts, or, after the last
\* batch, crawlAllPortals returns its summary.
BatchSleepDone ==
  /\ opc = "sleep"
  /\ now' = TimerFires(now, oSleepStart, BATCH_SLEEP_MS)
  /\ IF batchNo < NumBatches
     THEN /\ StartBatch(batchNo + 1)
          /\ UNCHANGED summary
     ELSE /\ opc' = "done"
          /\ summary' = CrawlSummary(results)
          /\ UNCHANGED <<batchNo, cpc, urlsToProcess, idx, articlesFound,
                         articlesCrawled, newArticles, errors, returned,
                         requests, tries, httpAttempts>>
  /\ UNCHANGED <<run, results, store, listingOf, docOf>>
  /\ UNCHANGED <<portalConfigs, oSleepStart>>
  /\ UNCHANGED notCrawlNorClock

(***************************************************************************)
(* One call of crawlPortal, with the clock                                 *)
(***************************************************************************)
\* config.delayMs of the configured portals
SourceDelays == {1500, 2000}
\* The clock when crawlPortal is called: long after the epoch the map's
\* default 0 stands for.
SourceEpoch == CHOOSE t \in SourceDelays : \A d \in SourceDelays : d <= t
\* The time the remote takes to answer a request, or to fail it.
Latencies == {100, 600}
\* How the iteration of a link ends.
Handlings == {"stored", "duplicate", "skipped"}
\* RateLimiter.getDomain(config.baseUrl)
SourceDomain == "d1"

SourceIdle ==
  /\ spc = "idle"
  /\ sLink = 0
  /\ sLinks = 0
  /\ sAttempt = 0
  /\ sSleepStart = 0
  /\ sSleepMs = 0
  /\ sInFlight = {}
  /\ sHandled = << >>
  /\ sLast = Undefined
  /\ sRun = 0

\* crawlPortal(config) is called, with no request made to its host before.
SourceInit ==
  /\ spc = "next"
  /\ sLink = 0
  /\ sLinks = 0
  /\ sAttempt = 0
  /\ sSleepStart = 0
  /\ sSleepMs = 0
  /\ sInFlight = {}
  /\ sHandled = << >>
  /\ sLast = Undefined
  /\ sRun = 1

SourceLimInit ==
  /\ now = SourceEpoch
  /\ \E d \in SourceDelays : delayOf = [x \in Domains |-> d]
  /\ lastRequestTime = << >>
  /\ wpc = [p \in Callers |-> "idle"]
  /\ wDomain = [p \in Callers |-> "d1"]
  /\ wStart = [p \in Callers |-> 0]
  /\ wWake = [p \in Callers |-> 0]
  /\ lastCall = [d \in Domains |-> NoCall]

\* fetch(url, ...) is called for attempt a of the link in progress, at clock t.
Dispatch(a, t) ==
  /\ spc' = "request"
  /\ sAttempt' = a
  /\ sInFlight' = sInFlight \cup {sLink}
  /\ sLast' = t

\* for (const url of urlsToProcess): the position after position i
NextIndexSkips_m(i) == i + 2
NextIndex(i) == i + 1

\* The iteration of the link in progress ends as `how`: the loop goes on to the
\* next link, or crawlPortal returns.
Handled(how) ==
  /\ sHandled' = Append(sHandled, [link |-> sLink, how |-> how])
  /\ IF NextIndex(sLink) <= sLinks
     THEN spc' = "next" /\ sLink' = NextIndex(sLink)
     ELSE spc' = "done" /\ UNCHANGED sLink
  /\ UNCHANGED sLinks

\* fetchWithRetry throws: for the listing page the outer catch returns, for a
\* document the inner catch records the error.
SourceThrows ==
  IF sLink = 0
  THEN spc' = "done" /\ UNCHANGED <<sLink, sLinks, sHandled>>
  ELSE Handled("error")

\* await rateLimiter.waitForDomain(domain, config.delayMs), up to its sleep or,
\* without one, through to the first request of fetchWithRetry.
SourceWaits ==
  /\ spc = "next"
  /\ LET delay == delayOf[SourceDomain]
         lastTime == LastTime(lastRequestTime, SourceDomain)
         elapsed == now - lastTime
     IN IF elapsed < delay
        THEN /\ spc' = "wait"
             /\ sSleepStart' = now
             /\ sSleepMs' = SleepMs(delay, elapsed)
             /\ UNCHANGED <<lastRequestTime, sAttempt, sInFlight, sLast>>
        ELSE /\ lastRequestTime' = MapSet(lastRequestTime, SourceDomain, now)
             /\ Dispatch(0, now)
             /\ UNCHANGED <<sSleepStart, sSleepMs>>
  /\ UNCHANGED <<now, sLink, sLinks, sHandled>>
  /\ UNCHANGED sRun
  /\ UNCHANGED notSourceVars

\* The sleep of waitForDomain ends: the clock is recorded and fetchWithRetry
\* makes its first request.
SourceWakes ==
  /\ spc = "wait"
  /\ now' = TimerFires(now, sSleepStart, sSleepMs)
  /\ lastRequestTime' = MapSet(lastRequestTime, SourceDomain, now')
  /\ Dispatch(0, now')
  /\ UNCHANGED <<sLink, sLinks, sSleepStart, sSleepMs, sHandled>>
  /\ UNCHANGED sRun
  /\ UNCHANGED notSourceVars

\* The request of the listing page is answered, after l ms, with a page of n
\* article links.
SourceListingArrives(l, n) ==
  /\ spc = "request"
  /\ sLink = 0
  /\ now' = now + l
  /\ sInFlight' = sInFlight \ {sLink}
  /\ sLinks' = IF n < MAX_ARTICLES_PER_PORTAL THEN n ELSE MAX_ARTICLES_PER_PORTAL
  /\ IF NextIndex(sLink) <= sLinks'
     THEN spc' = "next" /\ sLink' = NextIndex(sLink)
     ELSE spc' = "done" /\ UNCHANGED sLink
  /\ UNCHANGED <<lastRequestTime, sAttempt, sSleepStart, sSleepMs, sHandled, sLast>>
  /\ UNCHANGED sRun
  /\ UNCHANGED notSourceVars

\* The request of a document is answered, after l ms, with a page, and the
\* rest of the iteration runs: the document is skipped for want of a title,
\* found in the store, or stored.
SourceDocumentArrives(l, how) ==
  /\ spc = "request"
  /\ sLink >= 1
  /\ now' = now + l
  /\ sInFlight' = sInFlight \ {sLink}
  /\ Handled(how)
  /\ UNCHANGED <<lastRequestTime, sAttempt, sSleepStart, sSleepMs, sLast>>
  /\ UNCHANGED sRun
  /\ UNCHANGED notSourceVars

\* The attempt in flight fails after l ms with the error e: a terminal error
\* and the error of the last attempt are thrown, any other is followed by the
\* backoff sleep.
SourceAttemptFails(l, e) ==
  /\ spc = "request"
  /\ now' = now + l
  /\ sInFlight' = sInFlight \ {sLink}
  /\ IF ~IsTerminal(e) /\ WaitsBeforeRetry(sAttempt, Undefined)
     THEN /\ spc' = "backoff"
          /\ sSleepStart' = now'
          /\ sSleepMs' = BackoffMs(Undefined, sAttempt)
          /\ UNCHANGED <<sLink, sLinks, sHandled>>
     ELSE /\ SourceThrows
          /\ UNCHANGED <<sSleepStart, sSleepMs>>
  /\ UNCHANGED <<lastRequestTime, sAttempt, sLast>>
  /\ UNCHANGED sRun
  /\ UNCHANGED notSourceVars

\* The backoff sleep ends: the next attempt makes its request.
SourceBackoffDone ==
  /\ spc = "backoff"
  /\ LoopContinues(sAttempt + 1, Undefined)
  /\ now' = TimerFires(now, sSleepStart, sSleepMs)
  /\ Dispatch(sAttempt + 1, now')
  /\ UNCHANGED <<lastRequestTime, sLink, sLinks, sSleepStart, sSleepMs, sHandled>>
  /\ UNCHANGED sRun
  /\ UNCHANGED notSourceVars

\* crawlPortal(config) is called again for the portal, e ms after its previous
\* call returned: the locals are new, the rate limiter is the one instance of
\* the module.
SourceRestart(e) ==
  /\ spc = "done"
  /\ sRun < MaxRuns
  /\ sRun' = sRun + 1
  /\ now' = now + e
  /\ spc' = "next"
  /\ sLink' = 0
  /\ sLinks' = 0
  /\ sAttempt' = 0
  /\ sHandled' = << >>
  /\ UNCHANGED <<lastRequestTime, sSleepStart, sSleepMs, sInFlight, sLast>>
  /\ UNCHANGED notSourceVars

(***************************************************************************)
(* Analyzer: the LLM client's generateContent                              *)
(***************************************************************************)
MAX_RETRIES == 3
BASE_DELAY_MS == 2000

\* The values the model call throws: an Error with its message, or a value
\* that is no Error; a message is a sequence of words.
Thrown(isError, message) == [isError |-> isError, message |-> message]
NothingThrown == Thrown(FALSE, << >>)
ThrownValues ==
  { Thrown(TRUE, <<"Rate", "limit">>),
    Thrown(TRUE, <<"QUOTA">>),
    Thrown(TRUE, <<"HTTP", "429">>),
    Thrown(TRUE, <<"RESOURCE_EXHAUSTED">>),
    Thrown(TRUE, <<"cannot", "generate">>),
    Thrown(TRUE, <<"fetch", "failed">>),
    Thrown(FALSE, <<"429">>) }

\* error.message.toLowerCase(), per word
LowerWord(w) ==
  CASE w = "Rate" -> "rate"
    [] w = "QUOTA" -> "quota"
    [] w = "HTTP" -> "http"
    [] w = "RESOURCE_EXHAUSTED" -> "resource_exhausted"
    [] OTHER -> w
\* String.prototype.includes, on one word: "generate" holds "rate"
WordIncludes(w, part) == w = part \/ (w = "generate" /\ part = "rate")

\* isRateLimitError(error)
isRateLimitError(error) ==
  /\ error.isError
  /\ \E i \in 1..Len(error.message),
        part \in {"rate", "quota", "429", "resource_exhausted"} :
       WordIncludes(LowerWord(error.message[i]), part)

\* error instanceof Error ? error.message : String(error)
MessageOf(error) == error.message

\* BASE_DELAY_MS * Math.pow(2, attempt)
delayMsFlat_m(a) == BASE_DELAY_MS
delayMs(a) == BASE_DELAY_MS * 2^a

\* The texts of a response: JSON, JSON in a code block, and no JSON at all;
\* and its token counts.
ResponseTexts == {"json", "fenced", "prose"}
TokenCounts == {0, 7}
\* The time a model call takes.
CallTimes == {0, 1000}

ParseFailure == <<"Failed", "to", "parse", "JSON", "from", "response">>
LLMResponse(success, data, error, tokensUsed) ==
  [success |-> success, data |-> data, error |-> error, tokensUsed |-> tokensUsed]
\* the result of generateContent for a response: JSON.parse(text), then
\* parseJsonResponse(text)
ResultOf(text, tokensUsed) ==
  IF text \in {"json", "fenced"}
  THEN LLMResponse(TRUE, <<"data">>, Null, tokensUsed)
  ELSE LLMResponse(FALSE, Null, ParseFailure, tokensUsed)

LlmIdle ==
  /\ gpc = "idle"
  /\ gAttempt = 0
  /\ gLastError = << >>
  /\ gThrown = NothingThrown
  /\ gCaughtAt = 0
  /\ gCalls = 0
  /\ gNow = 0
  /\ gResult = Null

\* generateContent(prompt, systemInstruction) is called.
LlmInit ==
  /\ gpc = "loop"
  /\ gAttempt = 0
  /\ gLastError = << >>
  /\ gThrown = NothingThrown
  /\ gCaughtAt = 0
  /\ gCalls = 0
  /\ gNow = 0
  /\ gResult = Null

\* attempt < MAX_RETRIES: the model is called.
LlmCall ==
  /\ gpc = "loop"
  /\ gAttempt < MAX_RETRIES
  /\ gpc' = "awaiting"
  /\ gCalls' = gCalls + 1
  /\ UNCHANGED <<gAttempt, gLastError, gThrown, gCaughtAt, gNow, gResult>>
  /\ UNCHANGED notLlmVars

\* The loop is over: the failure is returned with the last message.
LlmGivesUp ==
  /\ gpc = "loop"
  /\ gAttempt >= MAX_RETRIES
  /\ gpc' = "returned"
  /\ gResult' = LLMResponse(FALSE, Null, gLastError, 0)
  /\ UNCHANGED <<gAttempt, gLastError, gThrown, gCaughtAt, gCalls, gNow>>
  /\ UNCHANGED notLlmVars

\* The model answers after t ms: the parsed data or the parse failure is
\* returned.
LlmResponds(text, tokensUsed, t) ==
  /\ gpc = "awaiting"
  /\ gNow' = gNow + t
  /\ gpc' = "returned"
  /\ gResult' = ResultOf(text, tokensUsed)
  /\ UNCHANGED <<gAttempt, gLastError, gThrown, gCaughtAt, gCalls>>
  /\ UNCHANGED notLlmVars

\* The model call throws after t ms: a rate limit error is slept on, any other
\* error leaves the loop and the failure is returned.
LlmThrows(error, t) ==
  /\ gpc = "awaiting"
  /\ gNow' = gNow + t
  /\ gLastError' = MessageOf(error)
  /\ gThrown' = error
  /\ gCaughtAt' = gNow'
  /\ IF isRateLimitError(error)
     THEN /\ gpc' = "sleeping"
          /\ UNCHANGED gResult
     ELSE /\ gpc' = "returned"
          /\ gResult' = LLMResponse(FALSE, Null, gLastError', 0)
  /\ UNCHANGED <<gAttempt, gCalls>>
  /\ UNCHANGED notLlmVars

\* await sleep(delayMs) ends; continue: attempt++.
LlmSleepDone ==
  /\ gpc = "sleeping"
  /\ gNow' = TimerFires(gNow, gCaughtAt, delayMs(gAttempt))
  /\ gAttempt' = gAttempt + 1
  /\ gpc' = "loop"
  /\ UNCHANGED <<gLastError, gThrown, gCaughtAt, gCalls, gResult>>
  /\ UNCHANGED notLlmVars

(***************************************************************************)
(* Specifications                                                          *)
(***************************************************************************)
\* One caller of the rate limiter issuing its calls one after the other.
SeqNext ==
  \/ Tick
  \/ \E d \in Domains : WaitStart(1, d)
  \/ WaitWake(1)

\* Several callers of the rate limiter, concurrently.
ConcNext ==
  \/ Tick
  \/ \E p \in Callers, d \in Domains : WaitStart(p, d)
  \/ \E p \in Callers : WaitWake(p)

\* One call of fetchWithRetry against a remote that may answer anything.
FetchNext ==
  \/ \E r \in RetriesOptions, d \in RetryDelayOptions : FetchCall(r, d)
  \/ \E st \in Statuses : Respond(st)
  \/ RequestTimesOut
  \/ RequestFails
  \/ BodyRead
  \/ BodyFails
  \/ BackoffDone

\* The rate limiter untouched: no caller, every delay 0.
LimIdle == LimInit /\ delayOf = [d \in Domains |-> 0]

\* A title and a body, edited again and again in letter case and whitespace.
TextNext ==
  \/ EditTitleCase
  \/ EditTitleSpace
  \/ EditBodyCase
  \/ EditBodySpace

\* crawlAllPortals called again and again against a remote that answers each
\* URL the same way every time.
CrawlNext ==
  \/ CrawlAllStart
  \/ \E p \in Portals : ListingFails(p)
  \/ \E p \in Portals, n \in 0..MaxLinks : ListingArrives(p, n)
  \/ \E p \in Portals : ArticleFails(p)
  \/ \E p \in Portals, a \in Articles \cup {NoArticle} : ArticleArrives(p, a)
  \/ BatchDone
  \/ BatchSleepDone

\* One run after the other over more portals than a batch holds, each listing
\* page with one link or none; every request is answered in the end.
BatchesNext ==
  \/ CrawlAllStart
  \/ \E p \in Portals : ListingFails(p)
  \/ \E p \in Portals, n \in 0..1 : ListingArrives(p, n)
  \/ \E p \in Portals : ArticleFails(p)
  \/ \E p \in Portals : ArticleArrives(p, ArticleA)
  \/ BatchDone
  \/ BatchSleepDone

\* One portal whose listing page has up to CapLinks links.
CapNext ==
  \/ CrawlAllStart
  \/ \E p \in Portals : ListingFails(p)
  \/ \E p \in Portals, n \in 0..CapLinks : ListingArrives(p, n)
  \/ \E p \in Portals : ArticleFails(p)
  \/ \E p \in Portals : ArticleArrives(p, ArticleA)
  \/ BatchDone
  \/ BatchSleepDone

\* The documents the remote holds when the store's faults are observed: one
\* with a title only and one with content.
FaultArticles == {ArticleA} \cup {a \in Articles : a.content # Null}

\* crawlAllPortals called again and again against a remote that answers each
\* URL the same way every time and a store whose insert may throw.
FaultsNext ==
  \/ CrawlAllStart
  \/ \E p \in Portals : ListingFails(p)
  \/ \E p \in Portals, n \in 0..MaxLinks : ListingArrives(p, n)
  \/ \E p \in Portals : ArticleFails(p)
  \/ \E p \in Portals, a \in FaultArticles \cup {NoArticle} : ArticleArrives(p, a)
  \/ \E p \in Portals, a \in FaultArticles : InsertFails(p, a)
  \/ BatchDone
  \/ BatchSleepDone

\* The same with one document only, titled or not; every request is answered
\* in the end.
FaultsFairNext ==
  \/ CrawlAllStart
  \/ \E p \in Portals : ListingFails(p)
  \/ \E p \in Portals, n \in 0..MaxLinks : ListingArrives(p, n)
  \/ \E p \in Portals : ArticleFails(p)
  \/ \E p \in Portals, a \in {ArticleA, NoArticle} : ArticleArrives(p, a)
  \/ \E p \in Portals : InsertFails(p, ArticleA)
  \/ BatchDone
  \/ BatchSleepDone

\* One call of crawlPortal against a host that answers or fails each request.
SourceNext ==
  \/ SourceWaits
  \/ SourceWakes
  \/ \E l \in Latencies, n \in 0..MaxLinks : SourceListingArrives(l, n)
  \/ \E l \in Latencies, how \in Handlings : SourceDocumentArrives(l, how)
  \/ \E l \in Latencies, e \in {HttpError(404), HttpError(503)} :
       SourceAttemptFails(l, e)
  \/ SourceBackoffDone

\* One portal whose listing page has no link, as many as are processed, or
\* more, with the attempts of every fetchWithRetry; every attempt ends.
AttemptsNext ==
  \/ CrawlAllStart
  \/ \E p \in Portals : ListingFails(p)
  \/ \E p \in Portals, n \in {0, MAX_ARTICLES_PER_PORTAL, CapLinks} :
       ListingArrives(p, n)
  \/ \E p \in Portals : ArticleFails(p)
  \/ \E p \in Portals : ArticleArrives(p, ArticleA)
  \/ \E p \in Portals : AttemptRetried(p)
  \/ BatchDone
  \/ BatchSleepDone

\* One call of crawlPortal after the other for one portal, at once or after
\* the sleep that ends a run, against a host that answers or fails each request.
SourceRunsNext ==
  \/ SourceWaits
  \/ SourceWakes
  \/ \E l \in Latencies, n \in 0..1 : SourceListingArrives(l, n)
  \/ \E l \in Latencies : SourceDocumentArrives(l, "stored")
  \/ \E l \in Latencies : SourceAttemptFails(l, HttpError(503))
  \/ SourceBackoffDone
  \/ \E e \in {0, BATCH_SLEEP_MS} : SourceRestart(e)

\* One invocation of generateContent.
LlmNext ==
  \/ LlmCall
  \/ \E text \in ResponseTexts, n \in TokenCounts, t \in CallTimes :
       LlmResponds(text, n, t)
  \/ \E error \in ThrownValues, t \in CallTimes : LlmThrows(error, t)
  \/ LlmSleepDone
  \/ LlmGivesUp

\* A URL, edited again and again in letter case, in the slashes that end its
\* path and in its known tracking parameters.
UrlNext ==
  \/ \E i \in 1..(MaxParams + MaxParams + MaxSlashes + 3) : EditUrlCase(i)
  \/ \E add \in BOOLEAN : EditUrlSlash(add)
  \/ \E i \in 1..(MaxParams + 1), name \in {"utm_source", "ref"} :
       EditUrlTracking(i, name)

\* A title and a body, edited again and again in their quote and dash variants.
PunctNext ==
  \/ EditTitleQuote
  \/ EditTitleDash
  \/ EditBodyQuote
  \/ EditBodyDash

\* Two documents, the second given title after title and content after content.
PairNext ==
  \/ \E t \in StringsOver(PairChars, MaxTitleLen) : OtherTitle(t)
  \/ \E b \in StringsOver(PairChars, MaxBodyLen) \cup {Null} : OtherBody(b)

\* A listing page that grows anchor by anchor and is parsed each time.
LinksNext == \E href \in Hrefs : ParseListing(href)

\* One document page, parsed.
TitleNext == ParseArticle

InitBatches ==
  LimIdle /\ FetchInit /\ TextIdle /\ LinkIdle /\ TitleIdle /\ BatchesInit /\ SourceIdle
    /\ ContentIdle /\ UrlIdle /\ LlmIdle
InitCap ==
  LimIdle /\ FetchInit /\ TextIdle /\ LinkIdle /\ TitleIdle /\ CapInit /\ SourceIdle
    /\ ContentIdle /\ UrlIdle /\ LlmIdle
InitTitle ==
  LimIdle /\ FetchInit /\ TextIdle /\ LinkIdle /\ TitleInit /\ CrawlInit /\ SourceIdle
    /\ ContentIdle /\ UrlIdle /\ LlmIdle
InitLimiter ==
  LimInit /\ FetchInit /\ TextIdle /\ LinkIdle /\ TitleIdle /\ CrawlInit /\ SourceIdle
    /\ ContentIdle /\ UrlIdle /\ LlmIdle
InitFetch ==
  LimIdle /\ FetchInit /\ TextIdle /\ LinkIdle /\ TitleIdle /\ CrawlInit /\ SourceIdle
    /\ ContentIdle /\ UrlIdle /\ LlmIdle
InitText ==
  LimIdle /\ FetchInit /\ TextInit /\ LinkIdle /\ TitleIdle /\ CrawlInit /\ SourceIdle
    /\ ContentIdle /\ UrlIdle /\ LlmIdle
InitCrawl ==
  LimIdle /\ FetchInit /\ TextIdle /\ LinkIdle /\ TitleIdle /\ CrawlInit /\ SourceIdle
    /\ ContentIdle /\ UrlIdle /\ LlmIdle
InitPunct ==
  LimIdle /\ FetchInit /\ PunctInit /\ LinkIdle /\ TitleIdle /\ CrawlInit /\ SourceIdle
    /\ ContentIdle /\ UrlIdle /\ LlmIdle
InitPair ==
  LimIdle /\ FetchInit /\ PairInit /\ LinkIdle /\ TitleIdle /\ CrawlInit /\ SourceIdle
    /\ ContentIdle /\ UrlIdle /\ LlmIdle
InitLinks ==
  LimIdle /\ FetchInit /\ TextIdle /\ LinkInit /\ TitleIdle /\ CrawlInit /\ SourceIdle
    /\ ContentIdle /\ UrlIdle /\ LlmIdle

InitSource ==
  SourceLimInit /\ FetchInit /\ TextIdle /\ LinkIdle /\ TitleIdle /\ CrawlInit /\ SourceInit
    /\ ContentIdle /\ UrlIdle /\ LlmIdle
InitContent ==
  LimIdle /\ FetchInit /\ TextIdle /\ LinkIdle /\ TitleIdle /\ CrawlInit /\ SourceIdle
    /\ ContentInit /\ UrlIdle /\ LlmIdle
InitUrl ==
  LimIdle /\ FetchInit /\ TextIdle /\ LinkIdle /\ TitleIdle /\ CrawlInit /\ SourceIdle
    /\ ContentIdle /\ UrlInit /\ LlmIdle
InitLlm ==
  LimIdle /\ FetchInit /\ TextIdle /\ LinkIdle /\ TitleIdle /\ CrawlInit /\ SourceIdle
    /\ ContentIdle /\ UrlIdle /\ LlmInit

SpecLimiterSeq == InitLimiter /\ [][SeqNext]_vars
SpecLimiter == InitLimiter /\ [][ConcNext]_vars
SpecFetch == InitFetch /\ [][FetchNext]_vars
\* The same call against a remote that may stall for ever: only the timers (the
\* abort timer of an attempt, the backoff sleep) are sure to fire.
SpecFetchStalled ==
  InitFetch /\ [][FetchNext]_vars /\ WF_vars(RequestTimesOut) /\ WF_vars(BackoffDone)
SpecText == InitText /\ [][TextNext]_vars
SpecCrawl == InitCrawl /\ [][CrawlNext]_vars
SpecPunct == InitPunct /\ [][PunctNext]_vars
SpecPair == InitPair /\ [][PairNext]_vars
SpecLinks == InitLinks /\ [][LinksNext]_vars
SpecTitle == InitTitle /\ [][TitleNext]_vars
SpecBatches == InitBatches /\ [][BatchesNext]_vars /\ WF_vars(BatchesNext)
SpecCap == InitCap /\ [][CapNext]_vars
SpecFaults == InitCrawl /\ [][FaultsNext]_vars
SpecSource == InitSource /\ [][SourceNext]_vars
SpecSourceRuns == InitSource /\ [][SourceRunsNext]_vars
SpecLlm == InitLlm /\ [][LlmNext]_vars
SpecUrl == InitUrl /\ [][UrlNext]_vars
SpecContent == InitContent /\ [][ExtractContent]_vars
SpecAttempts == InitCap /\ [][AttemptsNext]_vars /\ WF_vars(AttemptsNext)
SpecFaultsFair == InitCrawl /\ [][FaultsFairNext]_vars /\ WF_vars(FaultsFairNext)

(***************************************************************************)
(* Claims about the rate limiter                                           *)
(***************************************************************************)
\* A step completes a call for domain d: d's latest-call record is replaced.
Completes(d) == lastCall'[d] # lastCall[d]

\* The map's entry for d, present or not, is left as it was.
EntryUnchanged(d) ==
  /\ (d \in DOMAIN lastRequestTime') = (d \in DOMAIN lastRequestTime)
  /\ LastTime(lastRequestTime', d) = LastTime(lastRequestTime, d)

\* C1: when one caller makes its calls waitForDomain(d, delay) one after the
\* other, the dispatch time a call records is at least its delay after the
\* start of the previous call for d, and at least its delay after the dispatch
\* time the previous call recorded.
C1_SequentialSpacing ==
  [][\A d \in Domains :
       (Completes(d) /\ lastCall[d] # NoCall) =>
         /\ lastCall'[d].dispatch - lastCall[d].start >= delayOf[d]
         /\ lastCall'[d].dispatch - lastCall[d].dispatch >= delayOf[d]]_vars

\* C1 witness: a call for a domain has waited before recording its dispatch
\* (a first call never waits, so an earlier call for that domain was recorded).
C1_Witness ==
  \E d \in Domains :
    /\ lastCall[d] # NoCall
    /\ delayOf[d] = MaxDelay
    /\ lastCall[d].dispatch = lastCall[d].start + MaxDelay

\* C2: in every interleaving of concurrent callers for one domain, any two
\* dispatch times recorded for that domain are at least the later call's
\* minDelay apart.
C2_ConcurrentSpacing ==
  [][\A d \in Domains :
       (Completes(d) /\ lastCall[d] # NoCall) =>
         lastCall'[d].dispatch - lastCall[d].dispatch >= delayOf[d]]_vars

\* C3: a call for domain d1 waits as a function of d1's own last dispatch only
\* (it suspends exactly until last(d1) + delay, and returns at once when that
\* has passed), and no step of a call changes the entry of another domain.
C3_DomainsIndependent ==
  [][/\ \A p \in Callers :
          (wpc[p] = "idle" /\ wpc'[p] = "sleep") =>
            /\ wWake'[p] = LastTime(lastRequestTime, wDomain'[p]) + delayOf[wDomain'[p]]
            /\ wWake'[p] > now
            /\ lastRequestTime' = lastRequestTime
     /\ \A p \in Callers :
          (wpc[p] = "sleep" /\ wpc'[p] = "idle") =>
            \A d \in Domains \ {wDomain[p]} : EntryUnchanged(d)
     /\ \A d \in Domains :
          (wpc' = wpc /\ Completes(d)) =>
            /\ now - LastTime(lastRequestTime, d) >= delayOf[d]
            /\ \A e \in Domains \ {d} : EntryUnchanged(e)]_vars

\* C3 witness: a caller is suspended for one domain while another domain has
\* recorded a dispatch after that caller started waiting.
C3_Witness ==
  \E p \in Callers : \E d \in Domains \ {wDomain[p]} :
    /\ wpc[p] = "sleep"
    /\ d \in DOMAIN lastRequestTime
    /\ lastRequestTime[d] > wStart[p]

(***************************************************************************)
(* Claims about fetchWithRetry                                             *)
(***************************************************************************)
\* Requests issued so far by the call: the finished attempts and the one in
\* flight.
AttemptsMade == Len(outcomes) + (IF fpc \in {"request", "body"} THEN 1 ELSE 0)

\* The attempt ended with an HTTP status in 400-499 other than 429.
ClientErrorOutcome(o) ==
  o.end = "http" /\ 400 <= o.status /\ o.status <= 499 /\ o.status # 429

\* The attempt ended with a retryable failure: 429, 5xx, timeout, network error.
RetryableOutcome(o) ==
  \/ o.end = "http" /\ (o.status = 429 \/ (500 <= o.status /\ o.status <= 599))
  \/ o.end \in {"abort", "network"}

\* The failure a caller is to see for an attempt the network ended as o.
FailureOf(o) ==
  CASE o.end = "http" -> HttpError(o.status)
    [] o.end = "abort" -> TimeoutError
    [] o.end = "network" -> NetworkError
    [] OTHER -> NoError

\* C4: an attempt that ends with a status in 400-499 other than 429 is the
\* last attempt of its call: the call has thrown that failure, no attempt and
\* no backoff wait follows it (when it is the first attempt, exactly one
\* attempt was made and nothing was waited), whatever the retries option.
C4_ClientErrorTerminal ==
  \A i \in 1..Len(outcomes) :
    ClientErrorOutcome(outcomes[i]) =>
      /\ i = Len(outcomes)
      /\ AttemptsMade = i
      /\ Len(sleeps) = i - 1
      /\ fpc = "thrown"
      /\ thrown = HttpError(outcomes[i].status)

\* C4 witness: with the largest retries option, the first attempt got a 400
\* and the call has thrown.
C4_Witness ==
  /\ Retries(fRetries) = MaxRetries
  /\ Len(outcomes) = 1
  /\ outcomes[1] = Outcome(400, "http")
  /\ fpc = "thrown"

\* C5: a call never makes more than retries + 1 attempts; a call whose
\* attempts all ended with a retryable failure has thrown exactly when
\* retries + 1 attempts were made, and not before.
C5_AttemptBound ==
  /\ AttemptsMade <= Retries(fRetries) + 1
  /\ (\A i \in 1..Len(outcomes) : RetryableOutcome(outcomes[i])) =>
       (fpc = "thrown" <=> Len(outcomes) = Retries(fRetries) + 1)

\* C5 witness: every attempt failed with a retryable failure, retries + 1
\* attempts were made with the largest retries option, and the call has thrown.
C5_Witness ==
  /\ fpc = "thrown"
  /\ Retries(fRetries) = MaxRetries
  /\ Len(outcomes) = MaxRetries + 1
  /\ \A i \in 1..Len(outcomes) : RetryableOutcome(outcomes[i])

\* The k-th backoff wait is retryDelayMs * k, and a wait precedes every
\* attempt but the first.
BackoffIsLinear ==
  /\ \A k \in 1..Len(sleeps) : sleeps[k] = RetryDelayMs(fRetryDelayMs) * k
  /\ AttemptsMade >= 1 => Len(sleeps) >= AttemptsMade - 1

\* C6 as stated: the wait between the k-th failed attempt and attempt k+1 is
\* retryDelayMs * k, and the waits of one call are strictly increasing.
C6_BackoffStrictlyIncreasing ==
  /\ BackoffIsLinear
  /\ \A k \in 1..(Len(sleeps) - 1) : sleeps[k] < sleeps[k + 1]

\* C6 amended: the wait between the k-th failed attempt and attempt k+1 is
\* retryDelayMs * k; the waits of one call are strictly increasing when
\* retryDelayMs > 0 (and all 0 when it is 0).
C6_BackoffLinear ==
  /\ BackoffIsLinear
  /\ RetryDelayMs(fRetryDelayMs) > 0 =>
       \A k \in 1..(Len(sleeps) - 1) : sleeps[k] < sleeps[k + 1]

\* C6 witness: a call with a positive retryDelayMs has waited twice.
C6_Witness ==
  /\ RetryDelayMs(fRetryDelayMs) = MaxRetryDelay
  /\ Len(sleeps) >= 2
  /\ fpc = "request"

\* C7: a call that throws after its last permitted attempt throws the failure
\* of that last attempt.
C7_LastFailureSurfaced ==
  (fpc = "thrown" /\ Len(outcomes) = Retries(fRetries) + 1) =>
    thrown = FailureOf(outcomes[Len(outcomes)])

\* C7 witness: retries are exhausted and the last attempt failed otherwise
\* than the first.
C7_Witness ==
  /\ fpc = "thrown"
  /\ Len(outcomes) = Retries(fRetries) + 1
  /\ Len(outcomes) >= 2
  /\ FailureOf(outcomes[1]) # FailureOf(outcomes[Len(outcomes)])

\* The status of attempt i is in 200-299.
Status2xx(i) == 200 <= outcomes[i].status /\ outcomes[i].status <= 299

\* C8 as stated: the first attempt whose response status is in 200-299 is the
\* last attempt of the call, and the call has returned its body without
\* surfacing a failure.
C8_FirstOkStatusReturned ==
  \A i \in 1..Len(outcomes) :
    (Status2xx(i) /\ \A j \in 1..(i - 1) : ~Status2xx(j)) =>
      /\ i = Len(outcomes)
      /\ AttemptsMade = i
      /\ fpc = "returned"
      /\ fResult = i
      /\ thrown = NoError

\* C8 amended: the first attempt whose response status is in 200-299 and whose
\* body is read without a connection failure is the last attempt of the call,
\* and the call has returned its body without surfacing a failure; a call
\* returns no other way.
C8_FirstReadBodyReturned ==
  /\ \A i \in 1..Len(outcomes) :
       (/\ Status2xx(i) /\ outcomes[i].end # "network"
        /\ \A j \in 1..(i - 1) : ~(Status2xx(j) /\ outcomes[j].end # "network")) =>
         /\ i = Len(outcomes)
         /\ AttemptsMade = i
         /\ fpc = "returned"
         /\ fResult = i
         /\ thrown = NoError
  /\ fpc = "returned" =>
       /\ Len(outcomes) >= 1
       /\ outcomes[Len(outcomes)].end = "ok"
       /\ Status2xx(Len(outcomes))

\* C8 witness: the call returned the body of its last attempt after an attempt
\* that failed with a retryable failure and one whose body could not be read.
C8_Witness ==
  /\ fpc = "returned"
  /\ Len(outcomes) = 3
  /\ outcomes[1] = Outcome(503, "http")
  /\ outcomes[2] = Outcome(200, "network")
  /\ outcomes[3] = Outcome(299, "ok")
  /\ fResult = 3

(***************************************************************************)
(* Claims about the deduplicator                                           *)
(***************************************************************************)
\* C10: a title and a body that differ from the ones first given only in
\* letter case, in the length of whitespace runs or in leading and trailing
\* whitespace have the fingerprint of the ones first given.
C10_CaseSpaceInsensitive == generateContentHash(title, body) = fp0

\* C10 witness: both kinds of edit were applied, the title holds a letter and
\* the body is longer than the sample that is hashed and begins with whitespace.
C10_Witness ==
  /\ edited = {"case", "space"}
  /\ \E i \in 1..Len(title) : title[i] \in UpperChars \cup LowerChars
  /\ body # Null
  /\ Len(body) > SampleLen
  /\ body[1] \in SpaceChars
  /\ \E i \in 1..Len(body) : body[i] \in UpperChars

\* C11: a title and a body that differ from the ones first given only in the
\* variant of their quote characters (typographic or ASCII) and of their dashes
\* (en dash, em dash or hyphen) have the fingerprint of the ones first given.
C11_QuoteDashInsensitive == generateContentHash(title, body) = fp0

\* The dash half of C11, which the code keeps: an en dash and an em dash hash
\* as the hyphen does.
C11_DashInsensitive == edited \subseteq {"dash"} => generateContentHash(title, body) = fp0

\* The two documents differ in their normalized title or in the sample of
\* their normalized body.
ContentDiffers ==
  \/ normalizeText(title) # normalizeText(otherTitle)
  \/ ContentSample(body) # ContentSample(otherBody)

HasSeparator(s) == \E i \in 1..Len(s) : s[i] = "|"

\* C12 as stated: two documents that differ in their normalized title or in
\* the sample of their normalized body differ in the string that is hashed.
C12_DistinctContentDistinctKeys ==
  ContentDiffers => generateContentHash(title, body) # generateContentHash(otherTitle, otherBody)

\* C12, amended: two documents neither of whose normalized titles holds the
\* separator "|", and that differ in their normalized title or in the sample
\* of their normalized body, differ in the string that is hashed.
C12_DistinctKeysWithoutSeparator ==
  (/\ ContentDiffers
   /\ ~HasSeparator(normalizeText(title))
   /\ ~HasSeparator(normalizeText(otherTitle)))
    => generateContentHash(title, body) # generateContentHash(otherTitle, otherBody)

\* C12 witness: two documents with titles without the separator, one title a
\* prefix of the other and the bodies making up for it, and bodies that hold
\* the separator.
C12_Witness ==
  /\ ~HasSeparator(normalizeText(title))
  /\ ~HasSeparator(normalizeText(otherTitle))
  /\ Len(otherTitle) > Len(title)
  /\ Len(title) >= 1
  /\ body # Null /\ otherBody # Null
  /\ HasSeparator(body) /\ HasSeparator(otherBody)
  /\ Len(body) > Len(otherBody)
  /\ generateContentHash(title, body) # generateContentHash(otherTitle, otherBody)

(***************************************************************************)
(* Claims about the parser                                                 *)
(***************************************************************************)
\* The anchors of the page that carry an href, and the URL each stands for.
WithHref == {i \in 1..Len(anchors) : anchors[i] # Null /\ anchors[i] # << >>}
UrlAt(i) == resolveUrl(anchors[i], baseHost)
\* The anchors whose URL the filter accepts, and the first of them for a URL.
AcceptedAt == {i \in WithHref : isValidArticleUrl(UrlAt(i), baseHost)}
FirstAt(u) == CHOOSE i \in AcceptedAt : UrlAt(i) = u /\ \A j \in AcceptedAt : UrlAt(j) = u => i <= j

\* C13: the list parseArticleLinks returns holds no URL twice, holds exactly
\* the URLs of the accepted anchors, and orders them by the position in the
\* page of the first anchor of each.
C13_LinksDistinctInDocumentOrder ==
  /\ \A j, k \in 1..Len(links) : links[j] = links[k] => j = k
  /\ {links[k] : k \in 1..Len(links)} = {UrlAt(i) : i \in AcceptedAt}
  /\ \A j, k \in 1..Len(links) : j < k => FirstAt(links[j]) < FirstAt(links[k])

\* C13 witness: a page of three anchors, two of them different hrefs of one
\* document with another document's anchor between them, parsed to two links.
C13_Witness ==
  /\ Len(anchors) = 3
  /\ anchors[1] # anchors[3]
  /\ AcceptedAt = {1, 2, 3}
  /\ UrlAt(1) = UrlAt(3)
  /\ Len(links) = 2
  /\ links[2] = UrlAt(2)

\* A URL holds one of the non-document patterns, in any letter case.
HoldsNonDocumentPattern(url) ==
  \E pat \in skipPatterns : Includes(LowerUrl(url), pat)

\* The host hst is the portal's configured host or a subdomain of it, a
\* leading "www." of either left aside.
EndsWith(str, suffix) ==
  Len(str) >= Len(suffix) /\ SubSeq(str, Len(str) - Len(suffix) + 1, Len(str)) = suffix
WithoutWww(hst) ==
  IF Len(hst) >= 2 /\ SubSeq(hst, 1, 2) = <<"www", ".">> THEN SubSeq(hst, 3, Len(hst)) ELSE hst
InHost(hst) ==
  \/ WithoutWww(hst) = WithoutWww(baseHost)
  \/ EndsWith(hst, <<".">> \o WithoutWww(baseHost))

\* C14 as stated: no URL returned is that of a tag page, a search page, a
\* fragment-only link or a script link, and the URL of every anchor that
\* links a document of the portal is returned.
C14_OnlyAndAllDocumentLinks ==
  /\ \A k \in 1..Len(links) : links[k] \notin {resolveUrl(h, baseHost) : h \in NonDocHrefs}
  /\ \A i \in WithHref :
       anchors[i] \in DocHrefs \cup FragmentDocHrefs => \E k \in 1..Len(links) : links[k] = UrlAt(i)

\* C14, amended: no URL returned holds a non-document pattern anywhere, a "#"
\* included, and the URL of every anchor on the portal's host or a subdomain
\* of it that holds none of the patterns is returned.
C14_NoPatternAndAllPatternFreeLinks ==
  /\ \A k \in 1..Len(links) : ~HoldsNonDocumentPattern(links[k])
  /\ \A i \in WithHref :
       (InHost(Hostname(UrlAt(i))) /\ ~HoldsNonDocumentPattern(UrlAt(i)))
         => \E k \in 1..Len(links) : links[k] = UrlAt(i)

\* C14 witness: a page with a document link, a tag link in upper case and a
\* document link with a fragment, of which the document link alone is returned.
C14_Witness ==
  /\ Len(anchors) = 3
  /\ anchors[1] = <<"/", "TAG", "/", "x">>
  /\ anchors[2] \in FragmentDocHrefs
  /\ anchors[3] = <<"/", "Read", "/", "2">>
  /\ links = <<UrlAt(3)>>

\* C15: every URL returned is on the portal's configured host or on a
\* subdomain of it.
C15_OnlyConfiguredHost ==
  \A k \in 1..Len(links) : InHost(Hostname(links[k]))

\* Selector i yields rendered text longer than 10 characters.
YieldsTitle(i) == Len(Trim(selTexts[i])) > 10

\* C16: parseArticle returns null exactly when no selector of the title list
\* yields text longer than 10 characters; otherwise the title it returns is
\* the cleaned text of the first selector, in configured order, that yields
\* such text, and it is not empty.
C16_TitleFromFirstLongText ==
  ppc = "parsed" =>
    /\ (parsedTitle = Null) <=> ~\E i \in 1..Len(selTexts) : YieldsTitle(i)
    /\ parsedTitle # Null =>
         /\ parsedTitle # << >>
         /\ \E i \in 1..Len(selTexts) :
              /\ YieldsTitle(i)
              /\ \A j \in 1..(i - 1) : ~YieldsTitle(j)
              /\ parsedTitle = cleanText(Trim(selTexts[i]))

\* C16 witness: a page whose first selector yields exactly ten letters in
\* whitespace and whose second yields two letters ten spaces apart, parsed
\* to a title of three characters.
C16_Witness ==
  /\ ppc = "parsed"
  /\ Len(Trim(selTexts[1])) = 10
  /\ Len(selTexts[1]) > 10
  /\ selTexts[2] = <<"a">> \o Repeat(" ", 10) \o <<"b">>
  /\ parsedTitle = <<"a", " ", "b">>

(***************************************************************************)
(* Claims about the crawl orchestrator                                     *)
(***************************************************************************)
\* C9: when every listing and document request yields in a later run of
\* crawlAllPortals what it yielded in the first, the later run stores no
\* document and counts no new article: for no portal, in no CrawlResult, and
\* not in its summary.
C9_SecondRunStoresNothing ==
  /\ [](run >= 2 =>
          /\ \A p \in Portals : newArticles[p] = 0
          /\ \A p \in Portals : returned[p] # NoResult => returned[p].newArticles = 0
          /\ \A i \in 1..Len(results) : results[i].newArticles = 0
          /\ summary # NoSummary => summary.totalNewArticles = 0)
  /\ [][run >= 2 => store' = store]_vars

\* C9 witness: the second run has returned its summary, having fetched and
\* parsed documents of both portals again, with several records in the store.
C9_Witness ==
  /\ run = 2
  /\ opc = "done"
  /\ Len(store) >= 2
  /\ summary.totalNewArticles = 0
  /\ \A i \in 1..Len(summary.results) : summary.results[i].articlesCrawled >= 1

\* The portals of PORTAL_CONFIGS.
Configured == {portalConfigs[i] : i \in 1..Len(portalConfigs)}

\* What the crawlPortal of p has fetched of its documents so far: the requests
\* that failed, and those that yielded a document with a title.
FailedRequests(p) ==
  {i \in 1..Len(requests[p]) : docOf[requests[p][i]] = Failed}
TitledRequests(p) ==
  {i \in 1..Len(requests[p]) :
     /\ docOf[requests[p][i]] # Failed
     /\ docOf[requests[p][i]].article.title # << >>}

\* C17: when the request of a portal's listing page fails, crawlPortal returns
\* a CrawlResult with success false, one error, and articlesFound,
\* articlesCrawled and newArticles all zero, and it has requested no document.
C17_ListingFailureReturned ==
  \A p \in Configured :
    (cpc[p] = "returned" /\ listingOf[p] = Failed) =>
      /\ returned[p].portal = p
      /\ returned[p].success = FALSE
      /\ Len(returned[p].errors) = 1
      /\ returned[p].articlesFound = 0
      /\ returned[p].articlesCrawled = 0
      /\ returned[p].newArticles = 0
      /\ requests[p] = << >>

\* C17 witness: a batch has ended in which the listing page of one portal
\* failed while another portal fetched a document and returned.
C17_Witness ==
  /\ opc = "sleep"
  /\ \E p, q \in InBatch(batchNo) :
       /\ listingOf[p] = Failed
       /\ cpc[p] = "returned"
       /\ returned[p].success = FALSE
       /\ cpc[q] = "returned"
       /\ requests[q] # << >>

\* The result the crawlPortal of p returned is drawn from what its own
\* requests yielded.
OwnResult(r, p) ==
  /\ r.portal = p
  /\ r.success = (listingOf[p] # Failed)
  /\ r.articlesFound = (IF listingOf[p] = Failed THEN 0 ELSE listingOf[p].n)
  /\ r.articlesCrawled =
       Cardinality({i \in 1..r.articlesFound : docOf[<<p, i>>] \notin {Failed, Page(NoArticle)}})
  /\ r.newArticles <= r.articlesCrawled
  /\ Len(r.errors) =
       (IF listingOf[p] = Failed THEN 1
        ELSE Cardinality({i \in 1..r.articlesFound : docOf[<<p, i>>] = Failed}))

\* C18: a step in which a portal's listing request fails changes nothing of
\* the crawl of another portal; a run in which a listing request failed
\* still returns its summary; and the summary a run returns lists, in the
\* configured order, a result for every configured portal, in the batch of the
\* failed one and in later batches, each drawn from that portal's own requests.
C18_OtherPortalsComplete ==
  /\ [][\A p \in Configured :
          (cpc[p] = "listing" /\ cpc'[p] = "returned" /\ listingOf'[p] = Failed) =>
            \A q \in Configured \ {p} :
              /\ cpc'[q] = cpc[q]
              /\ idx'[q] = idx[q]
              /\ urlsToProcess'[q] = urlsToProcess[q]
              /\ articlesFound'[q] = articlesFound[q]
              /\ articlesCrawled'[q] = articlesCrawled[q]
              /\ newArticles'[q] = newArticles[q]
              /\ errors'[q] = errors[q]
              /\ returned'[q] = returned[q]]_vars
  /\ [](opc = "done" =>
          /\ Len(summary.results) = Len(portalConfigs)
          /\ \A i \in 1..Len(portalConfigs) : OwnResult(summary.results[i], portalConfigs[i]))
  /\ \A p \in Portals :
       (opc \in {"batch", "sleep"} /\ listingOf[p] = Failed) ~> (opc = "done")

\* C18 witness: a run over two batches is done in which the listing page of
\* the first portal failed and every other portal, the one of the second batch
\* included, fetched a document and stored or found it.
C18_Witness ==
  /\ opc = "done"
  /\ batchNo >= 2
  /\ listingOf[portalConfigs[1]] = Failed
  /\ summary.failedPortals = 1
  /\ \A i \in 2..Len(portalConfigs) : summary.results[i].articlesCrawled = 1
  /\ summary.totalNewArticles = 1

\* C19: a crawlPortal fetches at most 15 documents, namely the first links of
\* its listing page in the order of extraction, all of them or the first 15;
\* articlesFound is the number of links extracted.
C19_FirstFifteenLinksFetched ==
  \A p \in Configured :
    (cpc[p] \in {"article", "returned"} /\ listingOf[p] # Failed) =>
      LET n == listingOf[p].n
          fetched == IF n < 15 THEN n ELSE 15
      IN /\ Len(requests[p]) <= fetched
         /\ requests[p] = SubSeq(LinksOf(p, n), 1, Len(requests[p]))
         /\ articlesFound[p] = n
         /\ cpc[p] = "returned" =>
              /\ Len(requests[p]) = fetched
              /\ returned[p].articlesFound = n

\* C19 witness: the crawlPortal of a listing page with more than 16 links has
\* returned, having fetched 15 documents, some of them in vain.
C19_Witness ==
  \E p \in Configured :
    /\ cpc[p] = "returned"
    /\ returned[p].articlesFound > 16
    /\ Len(requests[p]) = 15
    /\ returned[p].articlesCrawled = 10
    /\ Len(returned[p].errors) = 5

\* C20: a step in which a document request fails appends one entry to the
\* errors of its crawlPortal and leaves articlesCrawled and newArticles as
\* they are, and the loop goes on to the next link or, after the last, returns
\* with success true; a crawlPortal that returns after its listing page
\* arrived has fetched every link to process, with one error for each failed
\* request and articlesCrawled counting the others that had a title.
C20_DocumentFailureRecorded ==
  /\ [][\A p \in Configured :
          (/\ cpc[p] = "article"
           /\ requests'[p] = Append(requests[p], urlsToProcess[p][idx[p]])
           /\ docOf'[urlsToProcess[p][idx[p]]] = Failed) =>
            /\ Len(errors'[p]) = Len(errors[p]) + 1
            /\ articlesCrawled'[p] = articlesCrawled[p]
            /\ newArticles'[p] = newArticles[p]
            /\ store' = store
            /\ IF idx[p] < Len(urlsToProcess[p])
               THEN cpc'[p] = "article" /\ idx'[p] = idx[p] + 1
               ELSE cpc'[p] = "returned" /\ returned'[p].success = TRUE]_vars
  /\ [](\A p \in Configured :
          (cpc[p] = "returned" /\ listingOf[p] # Failed) =>
            /\ returned[p].success = TRUE
            /\ requests[p] = urlsToProcess[p]
            /\ Len(returned[p].errors) = Cardinality(FailedRequests(p))
            /\ returned[p].articlesCrawled = Cardinality(TitledRequests(p)))

\* C20 witness: a portal whose listing page has two links, the first a
\* document that is stored and the second a failure, has returned
\* articlesFound 2, articlesCrawled 1, newArticles 1 and one error, with
\* success true.
C20_Witness ==
  \E p \in Configured :
    /\ cpc[p] = "returned"
    /\ docOf[<<p, 1>>] \notin {Unseen, Failed, Page(NoArticle)}
    /\ docOf[<<p, 2>>] = Failed
    /\ returned[p].success = TRUE
    /\ returned[p].articlesFound = 2
    /\ returned[p].articlesCrawled = 1
    /\ returned[p].newArticles = 1
    /\ Len(returned[p].errors) = 1

\* The portals whose crawlPortal has started and not yet returned.
Crawling == {p \in Portals : cpc[p] \in {"listing", "article"}}

\* C21: at every moment of a run of crawlAllPortals at most 3 portals have a
\* crawlPortal that has started and not returned, however many are configured.
C21_AtMostThreeCrawling == Cardinality(Crawling) <= 3

\* C21 witness: more than 3 portals are configured and 3 of them are being
\* crawled, one of them already past its listing page.
C21_Witness ==
  /\ Len(portalConfigs) > 3
  /\ Cardinality(Crawling) = 3
  /\ \E p \in Crawling : cpc[p] = "article"

\* The sum of f over the positions 1..n of the summary's results.
RECURSIVE TotalOf(_, _)
TotalOf(f, n) == IF n = 0 THEN 0 ELSE summary.results[n][f] + TotalOf(f, n - 1)

\* C22: the summary crawlAllPortals returns holds one result for each
\* configured portal and no other; totalPortals is successfulPortals plus
\* failedPortals, successfulPortals is the number of results with success
\* true, and totalArticlesFound and totalNewArticles are the sums of the
\* results' articlesFound and newArticles.
C22_SummaryAggregates ==
  opc = "done" =>
    /\ Len(summary.results) = Len(portalConfigs)
    /\ \A p \in Configured :
         Cardinality({i \in 1..Len(summary.results) : summary.results[i].portal = p}) = 1
    /\ summary.totalPortals = Len(portalConfigs)
    /\ summary.totalPortals = summary.successfulPortals + summary.failedPortals
    /\ summary.successfulPortals =
         Cardinality({i \in 1..Len(summary.results) : summary.results[i].success})
    /\ summary.totalArticlesFound = TotalOf("articlesFound", Len(summary.results))
    /\ summary.totalNewArticles = TotalOf("newArticles", Len(summary.results))

\* C22 witness: a run over two batches returned a summary with a failed
\* portal, and with links found by the first portal and by the last.
C22_Witness ==
  /\ opc = "done"
  /\ batchNo >= 2
  /\ summary.failedPortals = 1
  /\ summary.results[1].articlesFound = 1
  /\ summary.results[Len(summary.results)].articlesFound = 1
  /\ summary.totalArticlesFound >= 3
  /\ summary.totalNewArticles = 1

\* C23: crawlAllPortals never raises, whatever listing requests, document
\* requests, parses and store inserts fail: no crawlPortal rejects and the call
\* of crawlAllPortals does not reject; every crawlPortal that ended returned a
\* CrawlResult of its portal, and every started call of crawlAllPortals
\* returns a summary with one result for each configured portal.
C23_NeverRaises ==
  /\ [](/\ opc # "raised"
        /\ \A p \in Portals :
             /\ cpc[p] # "rejected"
             /\ cpc[p] = "returned" =>
                  returned[p].portal = p /\ returned[p].success \in BOOLEAN)
  /\ (opc = "batch") ~>
       (opc = "done" /\ Len(summary.results) = Len(portalConfigs))

\* C23 witness: a call returned its summary after one portal's listing request
\* failed and another portal had a document request fail and an insert fail.
C23_Witness ==
  /\ opc = "done"
  /\ \E p, q \in Configured :
       /\ listingOf[p] = Failed
       /\ summary.results[p].success = FALSE
       /\ Len(summary.results[q].errors) = 2
       /\ summary.results[q].articlesCrawled = 1
       /\ summary.results[q].newArticles = 0
       /\ \E i \in 1..2 : docOf[<<q, i>>] = Failed
       /\ store = << >>

\* C24: every record in the store was made from a document whose request and
\* parse succeeded: the record has a non-empty title, its title and content are
\* those parsed from the page at its URL, and its contentHash is
\* generateContentHash of its own title and content.
C24_StoredRecordsWhole ==
  \A i \in 1..Len(store) :
    /\ store[i].title # << >>
    /\ docOf[store[i].url] =
         Page([title |-> store[i].title, content |-> store[i].content])
    /\ store[i].contentHash =
         generateContentHash(store[i].title, store[i].content)

\* C24 witness: the store holds a record with content and one without, after
\* an untitled page was skipped and an insert failed.
C24_Witness ==
  /\ Len(store) = 2
  /\ \E i, j \in 1..2 : store[i].content = Null /\ store[j].content # Null
  /\ \E u \in Urls : docOf[u] = Page(NoArticle)
  /\ \E p \in Portals :
       cpc[p] = "returned" /\ returned[p].articlesCrawled > returned[p].newArticles
         /\ returned[p].errors # << >>

\* The document requests of p so far that yielded a page without a title.
UntitledRequests(p) ==
  {i \in 1..Len(requests[p]) : docOf[requests[p][i]] = Page(NoArticle)}

\* C25: a document page that parseArticle finds no title in is skipped and an
\* error for it is recorded in the errors of its portal's CrawlResult: the
\* errors hold at least one entry for each such page requested so far.
C25_ParseFailureRecorded ==
  \A p \in Configured :
    cpc[p] \in {"article", "returned"} =>
      Len(errors[p]) >= Cardinality(UntitledRequests(p))

\* C26: a portal whose listing page was fetched and held no article link
\* returns a CrawlResult with an error recorded for it.
C26_NoResultsRecorded ==
  \A p \in Configured :
    (cpc[p] = "returned" /\ listingOf[p] = Listing(0)) =>
      returned[p].errors # << >>

\* C27: a portal whose listing page held article links and whose every
\* document request failed returns a CrawlResult with success false.
C27_NoDocumentRetrievedFails ==
  \A p \in Configured :
    (/\ cpc[p] = "returned"
     /\ listingOf[p] \notin {Unseen, Failed}
     /\ urlsToProcess[p] # << >>
     /\ Cardinality(FailedRequests(p)) = Len(urlsToProcess[p])) =>
      returned[p].success = FALSE

\* C29: no portal of batch k+1 starts its crawl before every portal of batch k
\* has returned its CrawlResult and the sleep between batches, called after
\* that, has lasted its 2000 ms.
C29_BatchBarrier ==
  [][\A q \in Portals :
       (batchNo >= 1 /\ batchNo' = batchNo + 1 /\ cpc'[q] = "listing") =>
         /\ q \in InBatch(batchNo + 1)
         /\ \A p \in InBatch(batchNo) :
              /\ cpc[p] = "returned"
              /\ \E i \in 1..Len(results) : results[i] = returned[p]
         /\ opc = "sleep"
         /\ now' - oSleepStart >= 2000]_vars

\* C29 witness: the second batch is being crawled, 2000 ms after the first
\* batch's sleep was called, and the first batch's results are pushed.
C29_Witness ==
  /\ batchNo = 2
  /\ opc = "batch"
  /\ \E q \in InBatch(2) : cpc[q] = "article"
  /\ Len(results) = 3
  /\ now = oSleepStart + 2000

\* C28: one call of crawlPortal handles its links one at a time and in the
\* order of urlsToProcess: at most one of its requests is in flight, and that
\* for the link in progress; the links handled so far are the first ones, in
\* order; and while link i is waited for, requested or retried, exactly the
\* links before i have been handled.
C28_OneLinkAtATime ==
  /\ Cardinality(sInFlight) <= 1
  /\ sInFlight \subseteq {sLink}
  /\ \A i \in 1..Len(sHandled) :
       sHandled[i].link = i /\ sHandled[i].how \in Handlings \cup {"error"}
  /\ (spc \in {"next", "wait", "request", "backoff"} /\ sLink >= 1) =>
       Len(sHandled) = sLink - 1
  /\ (spc = "done" /\ sLink >= 1) => Len(sHandled) = sLinks

\* C28 witness: the second link is being retried after the first ended in an
\* error.
C28_Witness ==
  /\ spc = "request"
  /\ sLink = 2
  /\ sAttempt >= 1
  /\ sInFlight = {2}
  /\ Len(sHandled) = 1
  /\ sHandled[1].how = "error"

\* C30: between two successive requests one call of crawlPortal makes to its
\* host, the retries of fetchWithRetry and the first request after a failed
\* fetch included, at least config.delayMs elapses.
C30_RequestsSpaced ==
  [][(sInFlight = {} /\ sInFlight' # {} /\ sLast # Undefined) =>
       sLast' - sLast >= delayOf[SourceDomain]]_vars

(***************************************************************************)
(* Claims about the errors and the timeout of fetchWithRetry               *)
(***************************************************************************)
\* The class of the failure an error stands for, read most generously from
\* what the error carries: its code, the status in its message, and, for an
\* error that is no FetchError, its being a connection failure.
FailureClass(e) ==
  CASE e.name = "FetchError" /\ e.code = "TIMEOUT" -> "TIMEOUT"
    [] e.name = "FetchError" /\ e.code = "HTTP_ERROR" /\ e.status = 429 ->
         "HTTP_RATE_LIMITED"
    [] e.name = "FetchError" /\ e.code = "HTTP_ERROR" /\ e.status # 429
         /\ e.status >= 400 /\ e.status < 500 -> "HTTP_CLIENT_ERROR"
    [] e.name = "FetchError" /\ e.code = "HTTP_ERROR"
         /\ e.status >= 500 /\ e.status < 600 -> "HTTP_SERVER_ERROR"
    [] e.name = "TypeError" -> "NETWORK_ERROR"
    [] OTHER -> "none"

\* C31: every error fetchWithRetry throws is of exactly one of the classes
\* TIMEOUT, HTTP_CLIENT_ERROR, HTTP_RATE_LIMITED, HTTP_SERVER_ERROR and
\* NETWORK_ERROR, and is a FetchError carrying that class.
C31_FailureClassified ==
  fpc = "thrown" =>
    /\ FailureClass(thrown) # "none"
    /\ thrown.name = "FetchError"

\* C32: every call of fetchWithRetry ends, returning or throwing, even when
\* the remote never finishes sending: an attempt whose headers or body are
\* outstanding is ended by its timeout.
C32_EveryCallEnds ==
  (fpc \in {"request", "body"}) ~> (fpc \in {"returned", "thrown"})

(***************************************************************************)
(* Claims about termination and the counters of crawlPortal                *)
(***************************************************************************)
\* C33: when every HTTP attempt ends, a run of crawlAllPortals returns its
\* summary, and the crawlPortal of each portal has made at most
\* (1 + 15) * (2 + 1) HTTP attempts: the listing page and at most 15
\* documents, each with at most 2 retries after the first attempt.
C33_TerminatesWithinAttempts ==
  /\ [](\A p \in Portals :
         /\ httpAttempts[p] <= (1 + 15) * (2 + 1)
         /\ tries[p] <= 2)
  /\ (opc = "batch") ~> (opc = "done" /\ summary.totalPortals = Len(portalConfigs))

\* C33 witness: a run returned after the listing request and each of 15
\* document requests took three attempts.
C33_Witness ==
  /\ opc = "done"
  /\ \E p \in Configured :
       /\ httpAttempts[p] = 48
       /\ Len(requests[p]) = 15
       /\ summary.results[1].articlesFound > 15

\* min(links discovered, 15)
Processed(p) == IF articlesFound[p] < 15 THEN articlesFound[p] ELSE 15
\* The document-level errors of p: the entries the inner catch pushed.
ArticleErrors(p) ==
  Cardinality({i \in 1..Len(errors[p]) : errors[p][i][1] = "Article error"})

\* C34 as stated: at every point of a crawlPortal, 0 <= newArticles <=
\* articlesCrawled <= min(articlesFound, 15), and articlesCrawled plus the
\* number of document-level errors <= min(articlesFound, 15).
C34_CountersBounded ==
  \A p \in Portals :
    /\ 0 <= newArticles[p]
    /\ newArticles[p] <= articlesCrawled[p]
    /\ articlesCrawled[p] <= Processed(p)
    /\ articlesCrawled[p] + ArticleErrors(p) <= Processed(p)

\* C34 amended: at every point of a crawlPortal, 0 <= newArticles <=
\* articlesCrawled <= min(articlesFound, 15), and newArticles plus the number
\* of document-level errors <= min(articlesFound, 15); a document whose insert
\* threw is counted both in articlesCrawled and in the errors, so
\* articlesCrawled plus the errors may exceed the bound by the number of
\* failed inserts and no more: it stays <= 2 * min(articlesFound, 15).
C34_CountersBoundedByStored ==
  \A p \in Portals :
    /\ 0 <= newArticles[p]
    /\ newArticles[p] <= articlesCrawled[p]
    /\ articlesCrawled[p] <= Processed(p)
    /\ newArticles[p] + ArticleErrors(p) <= Processed(p)
    /\ ArticleErrors(p) <= Processed(p)
    /\ articlesCrawled[p] + ArticleErrors(p) <= 2 * Processed(p)
    /\ cpc[p] = "article" =>
         /\ articlesCrawled[p] <= idx[p] - 1
         /\ newArticles[p] + ArticleErrors(p) <= idx[p] - 1

\* C34 witness: a crawlPortal returned with both its documents counted as
\* crawled and both recorded as errors, their inserts having failed.
C34_Witness ==
  \E p \in Portals :
    /\ cpc[p] = "returned"
    /\ returned[p].articlesFound = 2
    /\ returned[p].articlesCrawled = 2
    /\ returned[p].newArticles = 0
    /\ Len(returned[p].errors) = 2

\* C35: no two records of the store carry the same contentHash, however the
\* crawlPortal calls of a batch interleave.
C35_NoFingerprintStoredTwice ==
  \A i, j \in 1..Len(store) :
    store[i].contentHash = store[j].contentHash => i = j

\* C35 witness: two portals crawled side by side fetched documents with the
\* same fingerprint from different URLs; the first stored it, the second found
\* it, and both go on.
C35_Witness ==
  /\ run = 1
  /\ cpc[1] = "article" /\ cpc[2] = "article"
  /\ Len(store) = 1
  /\ newArticles[1] = 1
  /\ articlesCrawled[2] = 1 /\ newArticles[2] = 0
  /\ docOf[<<1, 1>>] # docOf[<<2, 1>>]

(***************************************************************************)
(* Claims about extractContent                                             *)
(***************************************************************************)
\* The paragraphs of the first matching container that are longer than 20
\* characters, trimmed.
LongParagraphsOfFirst ==
  LET first == containers[1]
      kept == {i \in 1..Len(first) : Len(Trim(first[i])) > 20}
      RECURSIVE From(_)
      From(i) == IF i > Len(first) THEN << >>
                 ELSE (IF i \in kept THEN <<Trim(first[i])>> ELSE << >>) \o From(i + 1)
  IN From(1)

\* C36: when the first matching content container has paragraphs longer than
\* 20 characters, the body extractContent returns is exactly those
\* paragraphs, in order, with a blank line between consecutive ones.
C36_ParagraphsJoinedByBlankLine ==
  (kpc = "parsed" /\ containers # << >> /\ LongParagraphsOfFirst # << >>) =>
    parsedContent = Join(LongParagraphsOfFirst, <<"\n", "\n">>)

(***************************************************************************)
(* Claims about the rate limiter across runs                               *)
(***************************************************************************)
\* C37: the rate limiter's map outlives a call of crawlPortal: no step removes
\* a domain's entry or lowers its time, a later call finds the entry the
\* earlier one left, and the first request of a later call is dispatched no
\* sooner than config.delayMs after the time the entry held, the remaining
\* delay being slept out.
C37_LimiterOutlivesRuns ==
  [][/\ \A d \in DOMAIN lastRequestTime :
          d \in DOMAIN lastRequestTime' /\ lastRequestTime'[d] >= lastRequestTime[d]
     /\ sRun' # sRun => lastRequestTime' = lastRequestTime
     /\ (sRun >= 2 /\ sLink = 0 /\ sInFlight = {} /\ sInFlight' # {} /\ sAttempt' = 0) =>
          /\ now' >= lastRequestTime[SourceDomain] + delayOf[SourceDomain]
          /\ lastRequestTime'[SourceDomain] = now'
     /\ (sRun >= 2 /\ sLink = 0 /\ spc = "next" /\ spc' = "wait") =>
          sSleepMs' = lastRequestTime[SourceDomain] + delayOf[SourceDomain] - now]_vars

\* C37 witness: a second call, started as the first returned, sleeps in
\* waitForDomain for what remains of the delay since the first call's last
\* recorded time.
C37_Witness ==
  /\ sRun = 2
  /\ sLink = 0
  /\ spc = "wait"
  /\ sSleepStart = now
  /\ sSleepMs > 0
  /\ sSleepMs < delayOf[SourceDomain]
  /\ now + sSleepMs = lastRequestTime[SourceDomain] + delayOf[SourceDomain]

(***************************************************************************)
(* Claims about normalizeUrl                                               *)
(***************************************************************************)
\* C38: two URLs that differ only in letter case, in the slashes at their end
\* or in the presence of known tracking parameters have the same
\* normalizeUrl, and normalizeUrl of a normalized URL is that URL.
C38_EquivalentUrlsOneString ==
  /\ normalizeUrl(uUrl) = normalizeUrl(uFirst)
  /\ normalizeUrl(normalizeUrl(uUrl)) = normalizeUrl(uUrl)

(***************************************************************************)
(* Claims about the LLM client                                             *)
(***************************************************************************)
\* C39: generateContent calls the model at most MAX_RETRIES times; a call
\* after the first is made only after a rate limit error and only once
\* BASE_DELAY_MS * 2^attempt ms have passed since it was caught; any other
\* error ends the invocation at once; and an invocation that fails returns
\* success = false with the last error message.
C39_BoundedRetries ==
  /\ gCalls <= MAX_RETRIES
  /\ gpc \in {"loop", "awaiting", "sleeping", "returned"}
  /\ (gpc = "awaiting" /\ gCalls > 1) =>
        /\ gThrown # NothingThrown /\ isRateLimitError(gThrown)
        /\ gNow - gCaughtAt >= BASE_DELAY_MS * 2^(gCalls - 2)
  /\ (gThrown # NothingThrown /\ ~isRateLimitError(gThrown)) =>
        /\ gpc = "returned"
        /\ gResult = LLMResponse(FALSE, Null, MessageOf(gThrown), 0)
  /\ (gpc = "returned" /\ ~gResult.success) =>
        /\ gResult.data = Null
        /\ gResult.error \in {gLastError, ParseFailure}
        /\ gResult.error = gLastError => gThrown # NothingThrown
C39_Witness ==
  /\ gpc = "returned"
  /\ ~gResult.success
  /\ gCalls = MAX_RETRIES
  /\ gResult.error = <<"HTTP", "429">>
  /\ gNow >= BASE_DELAY_MS + BASE_DELAY_MS * 2 + BASE_DELAY_MS * 4

====
